---- MODULE Spec2Model ----
(***************************************************************************)
(* A model of DBAgent's trust boundary: the lexical read-only guard        *)
(* (agent/tools/db_tools.py), the deadline-bounded execution engine        *)
(* safe_query, and the bounded-round agent loop BasicAgent.run             *)
(* (agent_old.py).                                                         *)
(*                                                                         *)
(* SQL texts are sequences of one-character strings, so that the regular   *)
(* expressions of the guard are modelled by what they match, character by  *)
(* character.                                                              *)
(***************************************************************************)
EXTENDS Integers, Sequences, FiniteSets, TLC

VARIABLES
    mode,            \* which family of input texts a guard specification draws
    statement,       \* the SQL text given to _is_read_only
    nchunks,         \* how many lexemes the text was built from
    phase,           \* "input" | "classified" | "edited"
    readOnly,        \* result of _is_read_only(statement)
    edited,          \* statement with the content of one string literal changed
    editedReadOnly   \* result of _is_read_only(edited)

guardVars == <<mode, statement, nchunks, phase, readOnly, edited, editedReadOnly>>

VARIABLES
    now,             \* time.monotonic(), in milliseconds
    conn,            \* the sqlite3 connection in use
    sq,              \* the frame of safe_query: its arguments, locals and what it did
    exec_dict        \* the dict safe_query returned last

engineVars == <<now, conn, sq, exec_dict>>

VARIABLES
    stage,           \* who is at work: "idle" | "agent" | "gold" | "done" |
                     \* "recorded" | "crashed"
    run,             \* the frame of BasicAgent.run
    oracle,          \* what has been asked of the model so far
    runner           \* the locals of run_experiment: items and its counters

agentVars == <<stage, run, oracle, runner>>

VARIABLES
    cmp,             \* a call of compare_results: its arguments and its result
    trunc,           \* a call of _truncate_results: its argument and its result
    pair             \* two turns at work at once: their connections and runs

compareVars == <<cmp, trunc, pair>>

vars == <<guardVars, engineVars, agentVars, compareVars>>

-----------------------------------------------------------------------------
(* Characters *)

UpperLetters ==
    <<"A", "B", "C", "D", "E", "F", "G", "H", "I", "J", "K", "L", "M",
      "N", "O", "P", "Q", "R", "S", "T", "U", "V", "W", "X", "Y", "Z">>

LowerLetters ==
    <<"a", "b", "c", "d", "e", "f", "g", "h", "i", "j", "k", "l", "m",
      "n", "o", "p", "q", "r", "s", "t", "u", "v", "w", "x", "y", "z">>

DigitChars == <<"0", "1", "2", "3", "4", "5", "6", "7", "8", "9">>

Digits == {"0", "1", "2", "3", "4", "5", "6", "7", "8", "9"}

Range(f) == {f[i] : i \in DOMAIN f}

Min(S) == CHOOSE x \in S : \A y \in S : x <= y

Max(S) == CHOOSE x \in S : \A y \in S : x >= y

\* \s of the re module and the characters str.strip() removes
Whitespace == {" ", "\n", "\t", "\r"}

IsSpace(c) == c \in Whitespace

\* \w of the re module: the characters between which \b finds no boundary
IsWordChar(c) == c \in Range(UpperLetters) \cup Range(LowerLetters) \cup Digits \cup {"_"}

\* str.lower(), one character
LowerChar(c) ==
    IF c \in Range(UpperLetters)
    THEN LowerLetters[CHOOSE i \in DOMAIN UpperLetters : UpperLetters[i] = c]
    ELSE c

\* str.lower()
Lower(s) == [i \in DOMAIN s |-> LowerChar(s[i])]

\* the literal text w occurs in s at position i
At(s, i, w) ==
    /\ i >= 1
    /\ i + Len(w) - 1 <= Len(s)
    /\ \A k \in 1..Len(w) : s[i + k - 1] = w[k]

-----------------------------------------------------------------------------
(* _strip_comments_and_literals, db_tools.py:18-22 *)

\* re.sub(r"/\*.*?\*/", " ", statement, flags=re.S): every leftmost "/*"
\* up to the nearest following "*/" becomes one space; a "/*" that is never
\* closed is left as it is.
RECURSIVE SubBlockComments(_, _)
SubBlockComments(s, i) ==
    IF i > Len(s) THEN <<>>
    ELSE LET closes == {j \in (i + 2)..(Len(s) - 1) : At(s, j, <<"*", "/">>)}
         IN  IF At(s, i, <<"/", "*">>) /\ closes # {}
             THEN <<" ">> \o SubBlockComments(s, Min(closes) + 2)
             ELSE <<s[i]>> \o SubBlockComments(s, i + 1)

\* The tail (|$) of the pattern r"--.*?(|$)": the positions e at which the
\* group can match when the lazy .*? has consumed s[i+2..e-1]. The first
\* alternative of the group is empty, so it matches at every position.
LineCommentTail(s, e) == TRUE \/ e = Len(s) + 1

\* The end (exclusive) of the match of r"--.*?(|$)" at i: .*? is lazy and .
\* does not match a newline, so the match is the shortest one whose tail
\* matches.
LineCommentEnd(s, i) ==
    Min({e \in (i + 2)..(Len(s) + 1) :
            /\ \A k \in (i + 2)..(e - 1) : s[k] # "\n"
            /\ LineCommentTail(s, e)})

\* re.sub(r"--.*?(|$)", " ", statement)
RECURSIVE SubLineComments(_, _)
SubLineComments(s, i) ==
    IF i > Len(s) THEN <<>>
    ELSE IF At(s, i, <<"-", "-">>)
         THEN <<" ">> \o SubLineComments(s, LineCommentEnd(s, i))
         ELSE <<s[i]>> \o SubLineComments(s, i + 1)

\* The positions of a closing quote of r"'([^']|'')*'" when the body is
\* matched from p on: a character that is no quote is consumed by [^'], a
\* quote either closes the literal or, doubled, is consumed by ''.
RECURSIVE LiteralCloses(_, _)
LiteralCloses(s, p) ==
    IF p > Len(s) THEN {}
    ELSE IF s[p] # "'" THEN LiteralCloses(s, p + 1)
    ELSE {p} \cup (IF p + 1 <= Len(s) /\ s[p + 1] = "'"
                   THEN LiteralCloses(s, p + 2)
                   ELSE {})

\* re.sub(r"'([^']|'')*'", "''", statement): the star is greedy, so the
\* leftmost match extends to the last closing quote it can reach.
RECURSIVE SubLiterals(_, _)
SubLiterals(s, i) ==
    IF i > Len(s) THEN <<>>
    ELSE IF s[i] = "'" /\ LiteralCloses(s, i + 1) # {}
         THEN <<"'", "'">> \o SubLiterals(s, Max(LiteralCloses(s, i + 1)) + 1)
         ELSE <<s[i]>> \o SubLiterals(s, i + 1)

_strip_comments_and_literals(s) ==
    SubLiterals(SubLineComments(SubBlockComments(s, 1), 1), 1)

-----------------------------------------------------------------------------
(* _is_read_only, db_tools.py:24-32 *)

\* str.strip(chars): drop the leading and trailing characters that are in chars
RECURSIVE LStrip(_, _)
LStrip(s, chars) ==
    IF s # <<>> /\ Head(s) \in chars THEN LStrip(Tail(s), chars) ELSE s

RECURSIVE RStrip(_, _)
RStrip(s, chars) ==
    IF s # <<>> /\ s[Len(s)] \in chars
    THEN RStrip(SubSeq(s, 1, Len(s) - 1), chars)
    ELSE s

Strip(s, chars) == RStrip(LStrip(s, chars), chars)

\* cleaned = _strip_comments_and_literals(statement).strip().lower().strip(';')
Cleaned(s) ==
    Strip(Lower(Strip(_strip_comments_and_literals(s), Whitespace)), {";"})

kw_select == <<"s", "e", "l", "e", "c", "t">>
kw_with == <<"w", "i", "t", "h">>
kw_explain == <<"e", "x", "p", "l", "a", "i", "n">>
kw_query == <<"q", "u", "e", "r", "y">>
kw_plan == <<"p", "l", "a", "n">>

\* the first position from i on that holds no whitespace (\s* and the greedy
\* part of \s+)
RECURSIVE SkipSpace(_, _)
SkipSpace(s, i) ==
    IF i <= Len(s) /\ IsSpace(s[i]) THEN SkipSpace(s, i + 1) ELSE i

\* \b at the boundary between s[i-1] and s[i]
WordBoundary(s, i) ==
    LET before == i - 1 >= 1 /\ i - 1 <= Len(s) /\ IsWordChar(s[i - 1])
        after == i >= 1 /\ i <= Len(s) /\ IsWordChar(s[i])
    IN  before # after

\* (select|with)\b at i
MatchHead(s, i) ==
    \E w \in {kw_select, kw_with} : At(s, i, w) /\ WordBoundary(s, i + Len(w))

\* w\s+ at i: the position after the whitespace, or 0 when there is no match
AfterWordSpace(s, i, w) ==
    IF At(s, i, w) /\ i + Len(w) <= Len(s) /\ IsSpace(s[i + Len(w)])
    THEN SkipSpace(s, i + Len(w))
    ELSE 0

\* re.match(r"^\s*(?:explain\s+(?:query\s+plan\s+)?)?(select|with)\b", cleaned)
MatchPrefix(cleaned) ==
    LET p0 == SkipSpace(cleaned, 1)
        p1 == AfterWordSpace(cleaned, p0, kw_explain)
        p2 == IF p1 = 0 THEN 0 ELSE AfterWordSpace(cleaned, p1, kw_query)
        p3 == IF p2 = 0 THEN 0 ELSE AfterWordSpace(cleaned, p2, kw_plan)
    IN  \/ p3 # 0 /\ MatchHead(cleaned, p3)
        \/ p1 # 0 /\ MatchHead(cleaned, p1)
        \/ MatchHead(cleaned, p0)

\* the alternatives of the pattern "prohibited"
Vocabulary ==
    { <<"i", "n", "s", "e", "r", "t">>,
      <<"u", "p", "d", "a", "t", "e">>,
      <<"d", "e", "l", "e", "t", "e">>,
      <<"r", "e", "p", "l", "a", "c", "e">>,
      <<"c", "r", "e", "a", "t", "e">>,
      <<"a", "l", "t", "e", "r">>,
      <<"d", "r", "o", "p">>,
      <<"t", "r", "u", "n", "c", "a", "t", "e">>,
      <<"a", "t", "t", "a", "c", "h">>,
      <<"d", "e", "t", "a", "c", "h">>,
      <<"v", "a", "c", "u", "u", "m">>,
      <<"r", "e", "i", "n", "d", "e", "x">>,
      <<"a", "n", "a", "l", "y", "z", "e">>,
      <<"b", "e", "g", "i", "n">>,
      <<"c", "o", "m", "m", "i", "t">>,
      <<"r", "o", "l", "l", "b", "a", "c", "k">>,
      <<"s", "a", "v", "e", "p", "o", "i", "n", "t">>,
      <<"r", "e", "l", "e", "a", "s", "e">>,
      <<"p", "r", "a", "g", "m", "a">> }

\* the search without \b: a term is found inside a longer identifier too
SearchProhibitedAnywhere(cleaned) ==
    \E i \in 1..Len(cleaned), w \in Vocabulary : At(cleaned, i, w)

\* re.search(prohibited, cleaned) is not None: \b(term)\b matches somewhere
SearchProhibited(cleaned) ==
    \E i \in 1..Len(cleaned) :
        /\ WordBoundary(cleaned, i)
        /\ \E w \in Vocabulary :
              At(cleaned, i, w) /\ WordBoundary(cleaned, i + Len(w))

_is_read_only(s) ==
    LET cleaned == Cleaned(s)
    IN  IF ~MatchPrefix(cleaned) THEN FALSE ELSE ~SearchProhibited(cleaned)

-----------------------------------------------------------------------------
(* How the SQL backend itself splits a text into tokens: "--" opens a       *)
(* comment that runs to the end of the line, "/*" one that runs to the next *)
(* "*/", a quote opens a string literal in which '' stands for one quote.   *)
(* This is the yardstick of the guard's contract, not code of the guard.    *)

\* the last position of the line comment that starts at i
SqlLineCommentLast(s, i) ==
    LET ends == {e \in i..Len(s) : s[e] = "\n"}
    IN  IF ends = {} THEN Len(s) ELSE Min(ends)

\* the last position of the block comment that starts at i
SqlBlockCommentLast(s, i) ==
    LET closes == {j \in (i + 2)..(Len(s) - 1) : At(s, j, <<"*", "/">>)}
    IN  IF closes = {} THEN Len(s) ELSE Min(closes) + 1

\* the position of the quote that closes the literal whose body starts at p,
\* or 0 when the literal is never closed
RECURSIVE SqlLiteralClose(_, _)
SqlLiteralClose(s, p) ==
    IF p > Len(s) THEN 0
    ELSE IF s[p] # "'" THEN SqlLiteralClose(s, p + 1)
    ELSE IF p + 1 <= Len(s) /\ s[p + 1] = "'" THEN SqlLiteralClose(s, p + 2)
    ELSE p

\* the last position of the identifier or keyword that starts at i
RECURSIVE SqlWordLast(_, _)
SqlWordLast(s, i) ==
    IF i + 1 <= Len(s) /\ IsWordChar(s[i + 1]) THEN SqlWordLast(s, i + 1) ELSE i

\* the tokens of s from i on, comments and whitespace left out
RECURSIVE SqlTokens(_, _)
SqlTokens(s, i) ==
    IF i > Len(s) THEN <<>>
    ELSE IF At(s, i, <<"-", "-">>) THEN SqlTokens(s, SqlLineCommentLast(s, i) + 1)
    ELSE IF At(s, i, <<"/", "*">>) THEN SqlTokens(s, SqlBlockCommentLast(s, i) + 1)
    ELSE IF s[i] = "'"
         THEN LET c == SqlLiteralClose(s, i + 1)
                  last == IF c = 0 THEN Len(s) ELSE c
              IN  <<[kind |-> "literal", from |-> i, to |-> last, closed |-> c # 0]>>
                      \o SqlTokens(s, last + 1)
    ELSE IF IsWordChar(s[i])
         THEN LET last == SqlWordLast(s, i)
              IN  <<[kind |-> "word", from |-> i, to |-> last, closed |-> TRUE]>>
                      \o SqlTokens(s, last + 1)
    ELSE IF IsSpace(s[i]) THEN SqlTokens(s, i + 1)
    ELSE <<[kind |-> "other", from |-> i, to |-> i, closed |-> TRUE]>>
             \o SqlTokens(s, i + 1)

\* the text of token t of s, in lower case
TokenText(s, t) == Lower(SubSeq(s, t.from, t.to))

\* s holds a vocabulary term as a whole word outside comments and literals
HasBareKeyword(s) ==
    LET toks == SqlTokens(s, 1)
    IN  \E k \in DOMAIN toks :
            toks[k].kind = "word" /\ TokenText(s, toks[k]) \in Vocabulary

\* every block comment and every string literal of s is closed
RECURSIVE LexicallyClosed(_, _)
LexicallyClosed(s, i) ==
    IF i > Len(s) THEN TRUE
    ELSE IF At(s, i, <<"-", "-">>) THEN LexicallyClosed(s, SqlLineCommentLast(s, i) + 1)
    ELSE IF At(s, i, <<"/", "*">>)
         THEN /\ \E j \in (i + 2)..(Len(s) - 1) : At(s, j, <<"*", "/">>)
              /\ LexicallyClosed(s, SqlBlockCommentLast(s, i) + 1)
    ELSE IF s[i] = "'"
         THEN /\ SqlLiteralClose(s, i + 1) # 0
              /\ LexicallyClosed(s, SqlLiteralClose(s, i + 1) + 1)
    ELSE LexicallyClosed(s, i + 1)

\* s begins with SELECT, WITH or EXPLAIN [QUERY PLAN] SELECT/WITH
BeginsAsQuery(s) ==
    LET toks == SqlTokens(s, 1)
        word(k) == IF k <= Len(toks) /\ toks[k].kind = "word"
                   THEN TokenText(s, toks[k]) ELSE <<>>
        head(k) == word(k) \in {kw_select, kw_with}
    IN  \/ head(1)
        \/ word(1) = kw_explain /\ head(2)
        \/ word(1) = kw_explain /\ word(2) = kw_query /\ word(3) = kw_plan /\ head(4)

-----------------------------------------------------------------------------
(* safe_query, db_tools.py:35-83. Times are whole milliseconds. *)

MaxTime == 3

\* the values of msx_ms tried; msx_ms <= 0 means no deadline
TimeBudgets == {-1, 0, 1, 2}

\* an Optional value: <<>> is None, <<v>> is v
None == <<>>

Some(v) == <<v>>

\* a connection that was never opened; close_called records that close()
\* was called on it
NoConn ==
    [open |-> FALSE, handler |-> FALSE, deadline |-> None, close_called |-> FALSE,
     id |-> "none"]

\* sqlite3.connect(...): open, no progress handler
NewConn ==
    [open |-> TRUE, handler |-> FALSE, deadline |-> None, close_called |-> FALSE,
     id |-> "run"]

\* the connection run_experiment opens for the reference, functions.py:126
GoldConn == [NewConn EXCEPT !.id = "gold"]

\* a closure that tests against no budget at all (the deadline is start)
DeadlineWithoutBudget(start, msx_ms) ==
    IF msx_ms # 0 /\ msx_ms > 0 THEN Some(start) ELSE None

\* deadline = start + (msx_ms / 1000.0) if msx_ms and msx_ms > 0 else None
Deadline(start, msx_ms) ==
    IF msx_ms # 0 /\ msx_ms > 0 THEN Some(start + msx_ms) ELSE None

\* _progress_handler(): 1 asks the backend to abort, 0 lets it go on
_progress_handler(deadline, t) ==
    IF deadline # None /\ t >= deadline[1] THEN 1 ELSE 0

\* conn.set_progress_handler(_progress_handler, 1000)
Install(c, deadline) == [c EXCEPT !.handler = TRUE, !.deadline = deadline]

\* a finally clause that leaves the handler where it is
FinallyNothing(c) == c

\* finally: conn.set_progress_handler(None, 0)
Finally(c) == [c EXCEPT !.handler = FALSE, !.deadline = None]

\* conn.close()
Close(c) ==
    [c EXCEPT !.open = FALSE, !.handler = FALSE, !.deadline = None,
              !.close_called = TRUE]

\* conn.close() raises: the connection stays as it was
CloseFails(c) == [c EXCEPT !.close_called = TRUE]

msg_rejected ==
    <<"Q", "u", "e", "r", "y", " ", "r", "e", "j", "e", "c", "t", "e", "d", " ",
      "b", "y", " ", "r", "e", "a", "d", "-", "o", "n", "l", "y", " ",
      "p", "o", "l", "i", "c", "y">>

\* the message of the sqlite3.OperationalError the backend raises when the
\* progress handler returned non-zero
msg_interrupted == <<"i", "n", "t", "e", "r", "r", "u", "p", "t", "e", "d">>

\* messages of other sqlite3 errors: one that any statement can meet, and
\* the one for a statement that names a column Interrupted that does not exist
msg_locked ==
    <<"d", "a", "t", "a", "b", "a", "s", "e", " ", "i", "s", " ",
      "l", "o", "c", "k", "e", "d">>

msg_no_column ==
    <<"n", "o", " ", "s", "u", "c", "h", " ", "c", "o", "l", "u", "m", "n", ":", " ",
      "I", "n", "t", "e", "r", "r", "u", "p", "t", "e", "d">>

sql_interrupted ==
    <<"s", "e", "l", "e", "c", "t", " ",
      "I", "n", "t", "e", "r", "r", "u", "p", "t", "e", "d">>

\* the messages of the sqlite3 errors the backend may raise for sql
BackendErrors(sql) ==
    {msg_locked} \cup (IF sql = sql_interrupted THEN {msg_no_column} ELSE {})

\* a row as cursor.fetchall() gives it (a tuple) or as a list
Row(type, cells) == [type |-> type, cells |-> cells]

\* what cursor.fetchall() may return
ResultSets == {<<>>, <<Row("tuple", <<5>>)>>}

\* w in s
Contains(s, w) == \E i \in 1..Len(s) : At(s, i, w)

\* the dict returned at lines 48-54
RejectedDict(elapsed) ==
    [success |-> FALSE, status |-> "NoSafe", elapsed_ms |-> elapsed,
     results |-> <<>>, error |-> Some(msg_rejected)]

\* the dict returned at lines 65-71
SuccessDict(elapsed, rows) ==
    [success |-> TRUE, status |-> "success", elapsed_ms |-> elapsed,
     results |-> rows, error |-> None]

\* an except clause that reports the rows fetched so far as a success
ErrorDictKeepsSuccess(elapsed, msg) ==
    [success |-> TRUE,
     status |-> IF Contains(Lower(msg), msg_interrupted) THEN "TimeOut" ELSE "ExecFailed",
     elapsed_ms |-> elapsed, results |-> <<>>, error |-> Some(msg)]

\* the dict returned at lines 72-81 for the sqlite3.Error whose str() is msg
ErrorDict(elapsed, msg) ==
    [success |-> FALSE,
     status |-> IF Contains(Lower(msg), msg_interrupted) THEN "TimeOut" ELSE "ExecFailed",
     elapsed_ms |-> elapsed, results |-> <<>>, error |-> Some(msg)]

\* no dict yet
NoDict ==
    [success |-> FALSE, status |-> "none", elapsed_ms |-> 0,
     results |-> <<>>, error |-> None]

\* a guard that lets everything through
RejectsNothing(sql) == FALSE

\* line 46: if not _is_read_only(sql)
Rejects(sql) == ~_is_read_only(sql)

\* safe_query before it is called. Besides the arguments and locals the frame
\* records what the call did: handed (cursor.execute was called), installed
\* (line 59 ran), aborted (the handler returned 1), error (a sqlite3.Error was
\* caught), and how it ended.
IdleFrame ==
    [pc |-> "idle", caller |-> "none", sql |-> <<>>, msx_ms |-> 0, start |-> 0,
     deadline |-> None, handed |-> FALSE, installed |-> FALSE,
     aborted |-> FALSE, error |-> FALSE, conn_id |-> "none"]

\* lines 44-54: the statement is rejected and the call returns
RejectedFrame(caller, sql, msx_ms) ==
    [IdleFrame EXCEPT !.pc = "returned", !.caller = caller, !.sql = sql,
                      !.msx_ms = msx_ms, !.start = now]

\* lines 44-62: the statement is accepted, the handler is installed and the
\* statement is given to cursor.execute
ExecutingFrame(caller, sql, msx_ms) ==
    [IdleFrame EXCEPT !.pc = "executing", !.caller = caller, !.sql = sql,
                      !.msx_ms = msx_ms, !.start = now,
                      !.deadline = Deadline(now, msx_ms),
                      !.handed = TRUE, !.installed = TRUE]

-----------------------------------------------------------------------------
(* BasicAgent.run, agent_old.py:169-269, and the reference execution of     *)
(* run_experiment, evaluation/functions.py:124-130                          *)

MaxSteps == 2

sql_select == <<"s", "e", "l", "e", "c", "t", " ", "1">>

sql_drop == <<"d", "r", "o", "p", " ", "t", "a", "b", "l", "e", " ", "t">>

sql_batch ==
    <<"s", "e", "l", "e", "c", "t", " ", "1", ";",
      "d", "r", "o", "p", " ", "t", "a", "b", "l", "e", " ", "t">>

\* the SQL texts the model offers
SqlPool == {sql_interrupted, sql_drop, sql_batch}

\* the SQL texts the model offers under run_experiment
TurnSqlPool == {sql_select, sql_batch}

\* Under run_experiment the runs are kept shorter, so that a whole turn
\* fits: how many rounds a run may have, the budgets, the reference SQL of
\* the turn
MaxTurnSteps == 2

MaxTurnTime == 2

TimeBound == IF mode = "turn" THEN MaxTurnTime ELSE MaxTime

StepBound == IF mode = "turn" THEN MaxTurnSteps ELSE MaxSteps

Budgets == IF mode = "turn" THEN {0, 1} ELSE TimeBudgets

GoldPool == {sql_select, sql_drop}

msg_invalid_action ==
    <<"A", "g", "e", "n", "t", " ", "r", "e", "t", "u", "r", "n", "e", "d", " ",
      "a", "n", " ", "i", "n", "v", "a", "l", "i", "d", " ",
      "a", "c", "t", "i", "o", "n", ".">>

msg_no_sql ==
    <<"A", "g", "e", "n", "t", " ", "d", "i", "d", " ", "n", "o", "t", " ",
      "p", "r", "o", "v", "i", "d", "e", " ", "S", "Q", "L", " ", "t", "o", " ",
      "e", "x", "e", "c", "u", "t", "e", ".">>

\* values of the "action" field: query, final (any case, padded) and others
ActionTexts ==
    { <<"q", "u", "e", "r", "y">>,
      <<"F", "i", "n", "a", "l", " ">>,
      <<"d", "o", "n", "e">>,
      <<>> }

\* values of the "final_answer" field
AnswerTexts == {<<" ", "5">>, <<>>}

\* What self._openai_chat and self._extract_json give for one request:
\* "transport" (urlopen raises), "not_json" (json.loads raises), "not_object"
\* (JSON, but no dict, so .get raises AttributeError) or "object" with its
\* fields; a missing field reads as the empty text.  The objects tried: a
\* query with each SQL text and no answer, each other action with each
\* answer and no SQL, and a query and a final that carry both.
Reply(kind, action, sql, final_answer) ==
    [kind |-> kind, action |-> action, sql |-> sql, final_answer |-> final_answer]

OracleReplies ==
    {Reply(k, <<>>, <<>>, <<>>) : k \in {"transport", "not_json", "not_object"}}
        \cup {Reply("object", <<"q", "u", "e", "r", "y">>, q, <<>>) :
                  q \in SqlPool \cup {<<" ">>, <<>>}}
        \cup {Reply("object", a, <<>>, f) :
                  a \in ActionTexts \ {<<"q", "u", "e", "r", "y">>}, f \in AnswerTexts}
        \cup {Reply("object", a, sql_interrupted, <<" ", "5">>) :
                  a \in {<<"q", "u", "e", "r", "y">>, <<"F", "i", "n", "a", "l", " ">>}}

\* the replies under run_experiment: a query carries one of two SQL texts,
\* a blank one or none, and no answer
TurnReplies ==
    {Reply(k, <<>>, <<>>, <<>>) : k \in {"transport", "not_json", "not_object"}}
        \cup {Reply("object", <<"q", "u", "e", "r", "y">>, q, <<>>) :
                  q \in TurnSqlPool \cup {<<" ">>, <<>>}}
        \cup {Reply("object", a, <<>>, f) :
                  a \in ActionTexts \ {<<"q", "u", "e", "r", "y">>}, f \in AnswerTexts}

Replies == IF mode = "turn" THEN TurnReplies ELSE OracleReplies

\* an action read as it stands, neither trimmed nor lowercased
ActionAsWritten(reply) == reply.action

\* str(planner_payload.get("action", "")).strip().lower()
ActionOf(reply) == Lower(Strip(reply.action, Whitespace))

\* a decoder that gives an empty object for a text that is no JSON
DecodedOrEmpty(reply) == reply.kind \in {"object", "not_json"}

\* self._openai_chat returned, self._extract_json parsed the text and the
\* value has .get, lines 212-219 and 251-258
Decoded(reply) == reply.kind = "object"

\* if action == "final", line 221
action_is_final(action) == action = <<"f", "i", "n", "a", "l">>

\* a test that takes every action for a query
any_action_is_query(action) == TRUE

\* the negation of: if action != "query", line 225
action_is_query(action) == action = <<"q", "u", "e", "r", "y">>

\* a test that finds SQL in every reply
never_no_sql(sql) == FALSE

\* if not sql, line 231
no_sql(sql) == sql = <<>>

\* self._normalize_results: a tuple row becomes a list, anything else is kept
_normalize_results(results) ==
    [k \in DOMAIN results |->
        IF results[k].type = "tuple" THEN Row("list", results[k].cells)
        ELSE results[k]]

\* SQLExecution(executed=True, ...) built from exec_dict, lines 236-243
SQLExecution(d) ==
    [executed |-> TRUE, success |-> d.success, status |-> d.status,
     elapsed_ms |-> d.elapsed_ms, results |-> _normalize_results(d.results),
     error |-> d.error]

\* QueryStep(reasoning=reasoning, sql=sql, execution=execution), line 244
QueryStep(sql, d) ==
    [reasoning |-> "reasoning", sql |-> sql, execution |-> SQLExecution(d)]

\* run before it is called; final_answer and run_exc are Optional, raised is
\* the exception that leaves run, executions counts its calls of safe_query
IdleRun ==
    [pc |-> "idle", max_steps |-> 0, msx_ms |-> 0, round |-> 0, steps |-> <<>>,
     final_answer |-> None, run_exc |-> None, raised |-> None, executions |-> 0,
     connects |-> 0, schema_reads |-> 0, schema |-> None]

\* what get_database_schema(conn) returns: the tables and their columns
db_schema == <<"t", "c">>

\* a schema text made anew for each round
schema_text_of_round(r) == r.schema[1] \o <<DigitChars[r.round + 1]>>

\* schema_text = json.dumps(schema), line 202, as the planning prompt of
\* line 207-211 carries it
schema_text(r) == r.schema[1]

\* str(cell) of an integer cell
RECURSIVE IntText(_)
IntText(n) ==
    IF n < 0 THEN <<"-">> \o IntText(0 - n)
    ELSE IF n < 10 THEN <<DigitChars[n + 1]>>
    ELSE IntText(n \div 10) \o IntText(n % 10)

\* str(x) of a cell: a number is written out, a text is itself
str(x) == IF x \in Int THEN IntText(x) ELSE x

\* repr(x) of a cell: a text is put in quotes
repr(x) == IF x \in Int THEN IntText(x) ELSE <<"'">> \o x \o <<"'">>

RECURSIVE JoinCells(_)
JoinCells(cells) ==
    IF cells = <<>> THEN <<>>
    ELSE IF Len(cells) = 1 THEN repr(cells[1])
    ELSE repr(cells[1]) \o <<",", " ">> \o JoinCells(Tail(cells))

\* repr(tuple(cells)): (), (5,), (5, 6)
TupleText(cells) ==
    <<"(">> \o JoinCells(cells) \o (IF Len(cells) = 1 THEN <<",", ")">> ELSE <<")">>)

\* str(row) of a row that is no list: a tuple, or a bare value (type "scalar",
\* the value being its one cell)
RowText(row) ==
    IF row.type = "scalar" THEN str(row.cells[1]) ELSE TupleText(row.cells)

\* the defaults of _truncate_results
max_rows == 20

max_cell_chars == 200

\* s[:max_cell_chars] + "..." when s is longer than that
TruncateText(s, chars) ==
    IF Len(s) > chars THEN SubSeq(s, 1, chars) \o <<".", ".", ".">> ELSE s

\* str(x) of a cell that is a text already
str_of_text(x) == x

\* str(row) of a bare text
text_of_scalar(row) == row.cells[1]

\* the loop of _truncate_results, lines 131-146; texts tells whether the
\* values are texts (str() leaves them as they are) or numbers and tuples
TruncateRows(results, rows, chars, texts) ==
    [k \in 1..Min({Len(results), rows}) |->
        IF results[k].type = "list"
        THEN Row("list", [j \in DOMAIN results[k].cells |->
                              TruncateText(IF texts THEN str_of_text(results[k].cells[j])
                                           ELSE str(results[k].cells[j]), chars)])
        ELSE Row("str", <<TruncateText(IF texts THEN text_of_scalar(results[k])
                                       ELSE RowText(results[k]), chars)>>)]

\* self._truncate_results(results, max_rows, max_cell_chars) over rows of
\* numbers
_truncate_results(results, rows, chars) == TruncateRows(results, rows, chars, FALSE)

\* self._truncate_results(results, max_rows, max_cell_chars) over rows of
\* texts: lists of texts, and bare texts
_truncate_texts(results, rows, chars) == TruncateRows(results, rows, chars, TRUE)

\* a serializer that numbers the steps from 0
_steps_for_prompt_from_zero(steps) ==
    [i \in DOMAIN steps |->
        [step |-> i - 1, reasoning |-> steps[i].reasoning, sql |-> steps[i].sql,
         status |-> steps[i].execution.status,
         success |-> steps[i].execution.success,
         error |-> steps[i].execution.error,
         results |-> _truncate_results(steps[i].execution.results,
                                       max_rows, max_cell_chars)]]

\* a serializer that leaves out the steps that did not succeed
_steps_for_prompt_successes(steps) ==
    LET kept == SelectSeq(steps, LAMBDA st : st.execution.success)
    IN  [i \in DOMAIN kept |->
            [step |-> i, reasoning |-> kept[i].reasoning, sql |-> kept[i].sql,
             status |-> kept[i].execution.status,
             success |-> kept[i].execution.success,
             error |-> kept[i].execution.error,
             results |-> kept[i].execution.results]]

\* self._steps_for_prompt(steps), lines 154-167, before json.dumps
_steps_for_prompt(steps) ==
    [i \in DOMAIN steps |->
        [step |-> i,
         reasoning |-> steps[i].reasoning,
         sql |-> steps[i].sql,
         status |-> steps[i].execution.status,
         success |-> steps[i].execution.success,
         error |-> steps[i].execution.error,
         results |-> _truncate_results(steps[i].execution.results,
                                       max_rows, max_cell_chars)]]

\* nothing asked yet: the planning and summarization calls made, whether
\* every planning reply was a query with SQL, the final_answer the
\* summarization call gave, the reply to the last planning call, the way a
\* call failed, the steps the last request carried, the schema the last
\* planning request carried and whether all of them carried the same
NoCalls ==
    [planning |-> 0, summarization |-> 0, onlyQueries |-> TRUE, summary |-> None,
     last |-> None, failure |-> None, prompt |-> <<>>,
     schema |-> None, sameSchema |-> TRUE]

\* the two turns
Turns == {1, 2}

\* a run of a turn before it is called: conn is the connection it holds,
\* start and sql are the locals of its call of safe_query
IdleTurn ==
    [pc |-> "idle", msx_ms |-> 0, max_steps |-> 0, round |-> 0, steps |-> <<>>,
     conn |-> 0, start |-> 0, sql |-> <<>>]

\* no turn has begun, no connection is open
NoPair == [conns |-> [c \in Turns |-> NoConn], t |-> [t \in Turns |-> IdleTurn]]

\* no call of _truncate_results yet
NoPreview == [pc |-> "idle", results |-> <<>>, out |-> <<>>]

\* no call of compare_results yet
NoCompare ==
    [pc |-> "idle", pred_rows |-> <<>>, gold_rows |-> <<>>,
     order_insensitive |-> TRUE, result |-> FALSE]

\* run_experiment before its first turn, functions.py:84-91
NoItems ==
    [items |-> <<>>, match_count |-> 0, comparable_count |-> 0,
     pred_query_time_sum_ms |-> 0, gold_query_time_sum_ms |-> 0,
     pred_query_time_count |-> 0, gold_query_time_count |-> 0,
     metrics |-> None]

\* the characters of the texts of rows, in the order of their code points
CodePoints ==
    <<" ", "'", "(", ")", ",", "-">> \o DigitChars

ord(ch) == CHOOSE i \in DOMAIN CodePoints : CodePoints[i] = ch

\* a < b for two str values
RECURSIVE TextLess(_, _)
TextLess(a, b) ==
    IF b = <<>> THEN FALSE
    ELSE IF a = <<>> THEN TRUE
    ELSE IF a[1] = b[1] THEN TextLess(Tail(a), Tail(b))
    ELSE ord(a[1]) < ord(b[1])

\* t put into the sorted list texts, after the texts that are not greater
RECURSIVE Insert(_, _)
Insert(t, texts) ==
    IF texts = <<>> THEN <<t>>
    ELSE IF TextLess(t, texts[1]) THEN <<t>> \o texts
    ELSE <<texts[1]>> \o Insert(t, Tail(texts))

\* a sort that leaves the list as it is
unsorted(texts) == texts

\* sorted(texts)
RECURSIVE sorted(_)
sorted(texts) ==
    IF texts = <<>> THEN <<>>
    ELSE Insert(texts[Len(texts)], sorted(SubSeq(texts, 1, Len(texts) - 1)))

\* a canonical form that keeps one copy of each row
RECURSIVE Distinct(_)
Distinct(texts) ==
    IF texts = <<>> THEN <<>>
    ELSE LET rest == Distinct(SubSeq(texts, 1, Len(texts) - 1))
             t == texts[Len(texts)]
         IN  IF t \in Range(rest) THEN rest ELSE Append(rest, t)

_canonicalize_rows_distinct(rows) ==
    sorted(Distinct([k \in DOMAIN rows |->
                        IF rows[k].type \in {"list", "tuple"}
                        THEN TupleText(rows[k].cells)
                        ELSE TupleText(<<rows[k].cells[1]>>)]))

\* _canonicalize_rows(rows), functions.py:51-58: a list or tuple row is
\* written as repr(tuple(r)), any other row r as repr((r,)), and the texts
\* are sorted
_canonicalize_rows(rows) ==
    sorted([k \in DOMAIN rows |->
               IF rows[k].type \in {"list", "tuple"}
               THEN TupleText(rows[k].cells)
               ELSE TupleText(<<rows[k].cells[1]>>)])

\* compare_results(pred_rows, gold_rows, order_insensitive)
compare_results(pred_rows, gold_rows, order_insensitive) ==
    IF order_insensitive
    THEN _canonicalize_rows(pred_rows) = _canonicalize_rows(gold_rows)
    ELSE pred_rows = gold_rows

\* SQLExecution.to_dict and AgentStep.to_dict, schemes.py:17-25 and 34-39
execution_to_dict(e) ==
    [executed |-> e.executed, success |-> e.success, status |-> e.status,
     elapsed_ms |-> e.elapsed_ms, results |-> e.results, error |-> e.error]

step_to_dict(st) ==
    [reasoning |-> st.reasoning, sql |-> st.sql,
     execution |-> execution_to_dict(st.execution)]

\* a prediction that is the last step that succeeded
prediction_last_success(steps) ==
    LET kept == SelectSeq(steps, LAMBDA st : st.execution.success)
    IN  IF kept # <<>> THEN Some(kept[Len(kept)]) ELSE None

\* agent_result.steps[-1] if agent_result.steps, functions.py:108-112
prediction(steps) == IF steps # <<>> THEN Some(steps[Len(steps)]) ELSE None

\* a verdict that is null whenever one side did not succeed
verdict_null_on_failure(pred_exec, gold_exec, pred_rows, gold_rows, order_insensitive) ==
    IF pred_exec # None /\ gold_exec # None
         /\ pred_exec[1].success /\ gold_exec[1].success
    THEN Some(compare_results(pred_rows, gold_rows, order_insensitive))
    ELSE None

\* results_match, functions.py:122 and 139-145; gold_exec is None when no
\* reference was executed
verdict(pred_exec, gold_exec, pred_rows, gold_rows, order_insensitive) ==
    IF gold_exec # None /\ pred_exec # None
    THEN IF pred_exec[1].success /\ gold_exec[1].success
         THEN Some(compare_results(pred_rows, gold_rows, order_insensitive))
         ELSE Some(FALSE)
    ELSE None

\* a count that takes every turn for comparable
count_comparable_always(n, attempted) == n + 1

\* comparable_count += 1 inside the test of line 124
count_comparable(n, attempted) == IF attempted THEN n + 1 ELSE n

\* a count that never moves
count_match_never(n, results_match) == n

\* if results_match: match_count += 1, lines 142-143
count_match(n, results_match) ==
    IF results_match = Some(TRUE) THEN n + 1 ELSE n

\* The rest of a turn of run_experiment once agent.run has returned r,
\* functions.py:108-165: gold_sql and gold_exec are None when no reference
\* was executed. The locals of run_experiment after items.append; the
\* AgentResult holds steps and final_answer as run had them at line 260.
Record(rn, r, gold_sql, gold_exec, order_insensitive) ==
    LET pred == prediction(r.steps)
        has == pred # None
        pred_sql == IF has THEN pred[1].sql ELSE <<>>
        pred_exec == IF has THEN Some(execution_to_dict(pred[1].execution)) ELSE None
        pred_rows == IF has THEN pred[1].execution.results ELSE <<>>
        pred_time == IF has THEN Some(pred[1].execution.elapsed_ms) ELSE None
        attempted == gold_exec # None
        gold_rows == IF attempted THEN gold_exec[1].results ELSE <<>>
        gold_time == IF attempted THEN Some(gold_exec[1].elapsed_ms) ELSE None
        results_match ==
            verdict(pred_exec, gold_exec, pred_rows, gold_rows, order_insensitive)
        item == [gold_sql |-> gold_sql,
                 agent_result |->
                     [steps |-> [k \in DOMAIN r.steps |-> step_to_dict(r.steps[k])],
                      final_answer |-> r.final_answer],
                 pred_sql |-> pred_sql,
                 pred_execution |-> pred_exec,
                 pred_query_time_ms |-> pred_time,
                 gold_execution |-> gold_exec,
                 gold_query_time_ms |-> gold_time,
                 query_time_delta_ms |->
                     IF pred_time # None /\ gold_time # None
                     THEN Some(pred_time[1] - gold_time[1]) ELSE None,
                 order_insensitive |-> order_insensitive,
                 results_match |-> results_match]
    IN  [items |-> Append(rn.items, item),
         match_count |-> count_match(rn.match_count, results_match),
         comparable_count |-> count_comparable(rn.comparable_count, attempted),
         pred_query_time_sum_ms |->
             rn.pred_query_time_sum_ms + (IF has THEN pred_time[1] ELSE 0),
         pred_query_time_count |-> rn.pred_query_time_count + (IF has THEN 1 ELSE 0),
         gold_query_time_sum_ms |->
             rn.gold_query_time_sum_ms + (IF attempted THEN gold_time[1] ELSE 0),
         gold_query_time_count |->
             rn.gold_query_time_count + (IF attempted THEN 1 ELSE 0),
         metrics |-> rn.metrics]

\* an accuracy over all the turns
accuracy_over_turns(rn) ==
    IF rn.items # <<>> THEN Some(<<rn.match_count, Len(rn.items)>>) ELSE None

\* (match_count / comparable_count) if comparable_count else None, line 168:
\* the quotient is kept as the pair of the two counts
accuracy(rn) ==
    IF rn.comparable_count # 0
    THEN Some(<<rn.match_count, rn.comparable_count>>) ELSE None

\* the "metrics" of results_payload, lines 175-177
Metrics(rn) ==
    [comparable |-> rn.comparable_count, matches |-> rn.match_count,
     accuracy |-> accuracy(rn)]

-----------------------------------------------------------------------------
(* The texts the guard is tried on: concatenations of a few lexemes. *)

MaxLexChunks == 6

MaxGramChunks == 4

\* lexemes that exercise comments and literals
LexChunks ==
    { <<"S", "E", "L", "E", "C", "T">>,
      <<"d", "r", "o", "p">>,
      <<"'">>,
      <<"/", "*">>,
      <<"*", "/">>,
      <<"-", "-">>,
      <<"\n">> }

\* lexemes that exercise the prefix and the whole-word search
GramChunks ==
    { <<"E", "x", "p", "l", "a", "i", "n">>,
      <<"q", "u", "e", "r", "y", " ", "p", "l", "a", "n", " ">>,
      <<"s", "e", "l", "e", "c", "t">>,
      <<"w", "i", "t", "h">>,
      <<"d", "r", "o", "p">>,
      <<"x">>,
      <<" ">>,
      <<";">>,
      <<"'", "d", "r", "o", "p", "'">> }

\* what a string literal's content is changed to
KeywordContents ==
    { <<"d", "r", "o", "p">>,
      <<"'", "'", "d", "r", "o", "p", " ", "t">> }

GuardInit(m) ==
    /\ mode = m
    /\ statement = <<>>
    /\ nchunks = 0
    /\ phase = "input"
    /\ readOnly = FALSE
    /\ edited = <<>>
    /\ editedReadOnly = FALSE
    /\ now = 0
    /\ conn = NoConn
    /\ sq = IdleFrame
    /\ exec_dict = NoDict
    /\ stage = "idle"
    /\ run = IdleRun
    /\ oracle = NoCalls
    /\ runner = NoItems
    /\ cmp = NoCompare
    /\ trunc = NoPreview
    /\ pair = NoPair

\* one more lexeme of the text under test
Type(chunks, bound) ==
    /\ phase = "input"
    /\ nchunks < bound
    /\ \E c \in chunks : statement' = statement \o c
    /\ nchunks' = nchunks + 1
    /\ UNCHANGED <<mode, phase, readOnly, edited, editedReadOnly>>
    /\ UNCHANGED <<engineVars, agentVars, compareVars>>

\* _is_read_only(statement)
Classify ==
    /\ phase = "input"
    /\ readOnly' = _is_read_only(statement)
    /\ phase' = "classified"
    /\ UNCHANGED <<mode, statement, nchunks, edited, editedReadOnly>>
    /\ UNCHANGED <<engineVars, agentVars, compareVars>>

\* the content of one closed string literal of statement is changed to hold
\* a vocabulary term, and _is_read_only is asked again
EditLiteral ==
    /\ phase = "classified"
    /\ LET toks == SqlTokens(statement, 1)
       IN  \E k \in DOMAIN toks, content \in KeywordContents :
               /\ toks[k].kind = "literal" /\ toks[k].closed
               /\ edited' = SubSeq(statement, 1, toks[k].from) \o content
                                \o SubSeq(statement, toks[k].to, Len(statement))
    /\ editedReadOnly' = _is_read_only(edited')
    /\ phase' = "edited"
    /\ UNCHANGED <<mode, statement, nchunks, readOnly>>
    /\ UNCHANGED <<engineVars, agentVars, compareVars>>

NextGuard == Type(LexChunks, MaxLexChunks) \/ Classify \/ EditLiteral

SpecGuard == GuardInit("lex") /\ [][NextGuard]_vars

NextClassify == Type(GramChunks, MaxGramChunks) \/ Classify

SpecClassify == GuardInit("gram") /\ [][NextClassify]_vars

-----------------------------------------------------------------------------
(* compare_results on its own: two lists of rows are chosen, then compared *)

MaxRows == 2

\* rows as they come: tuples of cursor.fetchall(), lists of
\* _normalize_results, and bare values
RowPool ==
    { Row("tuple", <<1>>), Row("tuple", <<1, 2>>), Row("tuple", <<2, 1>>),
      Row("list", <<1, 2>>), Row("list", <<10>>), Row("scalar", <<1>>) }

RowLists == UNION {[1..n -> RowPool] : n \in 0..MaxRows}

\* the arguments of a call
Draw ==
    /\ cmp.pc = "idle"
    /\ \E pred_rows \in RowLists, gold_rows \in RowLists, order_insensitive \in BOOLEAN :
           cmp' = [pc |-> "called", pred_rows |-> pred_rows, gold_rows |-> gold_rows,
                   order_insensitive |-> order_insensitive, result |-> FALSE]
    /\ UNCHANGED <<guardVars, engineVars, agentVars, trunc, pair>>

\* compare_results(pred_rows, gold_rows, order_insensitive) returns
Compare ==
    /\ cmp.pc = "called"
    /\ cmp' = [cmp EXCEPT !.pc = "returned",
                          !.result = compare_results(cmp.pred_rows, cmp.gold_rows,
                                                     cmp.order_insensitive)]
    /\ UNCHANGED <<guardVars, engineVars, agentVars, trunc, pair>>

NextCompare == Draw \/ Compare

SpecCompare == GuardInit("compare") /\ [][NextCompare]_vars

-----------------------------------------------------------------------------
(* _truncate_results on its own, with its default max_rows and            *)
(* max_cell_chars: a result is chosen, then truncated                      *)

MaxPreviewRows == 22

MaxCellLen == 205

\* the first characters of the texts tried, one for each row
Marks == <<"a", "b", "c", "d", "e", "f", "g", "h", "i", "j", "k", "l", "m",
           "n", "o", "p", "q", "r", "s", "t", "u", "v", "w", "y", "z">>

\* a text of n characters for row k
TextOfLen(k, n) == [i \in 1..n |-> IF i = 1 THEN Marks[k] ELSE "x"]

\* the lengths of the texts tried, around max_cell_chars
CellLengths ==
    {0, 1, max_cell_chars - 1, max_cell_chars, max_cell_chars + 1, MaxCellLen}

\* n rows of one shape; row k holds the text of len characters of row k
ResultOf(n, type, len) == [k \in 1..n |-> Row(type, <<TextOfLen(k, len)>>)]

\* the argument of a call: rows as _normalize_results leaves them (lists),
\* or bare values
DrawResults ==
    /\ trunc.pc = "idle"
    /\ \E n \in 0..MaxPreviewRows, type \in {"list", "scalar"}, len \in CellLengths :
           trunc' = [pc |-> "called", results |-> ResultOf(n, type, len), out |-> <<>>]
    /\ UNCHANGED <<guardVars, engineVars, agentVars, cmp, pair>>

\* BasicAgent._truncate_results(results) returns
Truncate ==
    /\ trunc.pc = "called"
    /\ trunc' = [trunc EXCEPT !.pc = "returned",
                              !.out = _truncate_texts(trunc.results,
                                                      max_rows, max_cell_chars)]
    /\ UNCHANGED <<guardVars, engineVars, agentVars, cmp, pair>>

NextTruncate == DrawResults \/ Truncate

SpecTruncate == GuardInit("truncate") /\ [][NextTruncate]_vars

-----------------------------------------------------------------------------
(* The actions of safe_query, of BasicAgent.run and of the reference       *)
(* execution. A call of safe_query blocks in the backend, so it spans      *)
(* several steps: its entry, the backend's polls of the progress handler,  *)
(* and its exit, which also runs the caller up to its next blocking point. *)

Init == GuardInit("off")

\* time.monotonic() moves on; the time that matters is the time that passes
\* while the backend executes a statement
Tick ==
    /\ sq.pc = "executing"
    /\ now < TimeBound
    /\ now' = now + 1
    /\ UNCHANGED <<conn, sq, exec_dict, agentVars, guardVars, compareVars>>

\* an end of run that returns its result whatever close() does
ReturnRunDespiteClose(r, answer, c) ==
    \E closes \in BOOLEAN :
        /\ conn' = IF closes THEN Close(c) ELSE CloseFails(c)
        /\ run' = [r EXCEPT !.pc = "returned", !.final_answer = Some(answer)]
        /\ stage' = "done"
        /\ runner' = runner

\* The end of run, agent_old.py:260-269, when it returns final_answer: the
\* finally clause closes the connection c; if close() raises, that exception
\* replaces the return, as run_exc is None.
ReturnRun(r, answer, c) ==
    \E closes \in BOOLEAN :
        /\ conn' = IF closes THEN Close(c) ELSE CloseFails(c)
        /\ run' = [r EXCEPT !.pc = IF closes THEN "returned" ELSE "raised",
                            !.final_answer = Some(answer),
                            !.raised = IF closes THEN None ELSE Some("close")]
        /\ stage' = "done"
        /\ runner' = runner

\* a run that answers with an empty text where it should raise exc
RaiseRunAsAnswer(r, exc, c) == ReturnRun(r, <<>>, c)

\* a run that swallows exc and goes round its loop again
RaiseRunAndGoOn(r, exc, c) ==
    /\ conn' = c
    /\ run' = [r EXCEPT !.pc = "loop"]
    /\ stage' = stage
    /\ runner' = runner

\* The end of run when exc propagates from the try block: run_exc = exc, the
\* finally clause closes c, and an exception of close() is swallowed.
RaiseRun(r, exc, c) ==
    \E closes \in BOOLEAN :
        /\ conn' = IF closes THEN Close(c) ELSE CloseFails(c)
        /\ run' = [r EXCEPT !.pc = "raised", !.run_exc = Some(exc), !.raised = Some(exc)]
        /\ stage' = "done"
        /\ runner' = runner

\* a list that keeps only the step appended last
steps_replace(steps, step) == <<step>>

\* steps.append(step), line 244
\* an append that leaves the step in the list twice
steps_append_twice(steps, step) == Append(Append(steps, step), step)

steps_append(steps, step) == Append(steps, step)

\* What the caller of safe_query does once it has the dict d, the connection
\* being c: run appends a step and goes round the loop (lines 236-244);
\* run_experiment closes its connection (line 130), where close() may raise,
\* and goes on to the end of the turn (lines 132-165).
Resume(caller, r, sql, c, d) ==
    IF caller = "agent"
    THEN /\ conn' = c
         /\ run' = [r EXCEPT !.pc = "loop",
                             !.steps = steps_append(@, QueryStep(sql, d)),
                             !.round = @ + 1]
         /\ UNCHANGED <<stage, runner>>
    ELSE \E closes, order_insensitive \in BOOLEAN :
             /\ conn' = IF closes THEN Close(c) ELSE CloseFails(c)
             /\ run' = r
             /\ stage' = IF closes THEN "recorded" ELSE "crashed"
             /\ runner' = IF closes
                          THEN Record(runner, r, Some(sql), Some(d), order_insensitive)
                          ELSE runner

\* What the caller of safe_query does when safe_query raises exc: run ends
\* by it, run_experiment closes its connection and lets it through.
Propagate(caller, r, exc, c) ==
    IF caller = "agent"
    THEN RaiseRun(r, exc, c)
    ELSE /\ \E closes \in BOOLEAN : conn' = IF closes THEN Close(c) ELSE CloseFails(c)
         /\ run' = r
         /\ stage' = "crashed"
         /\ runner' = runner

\* safe_query(c, sql, msx_ms) is called, lines 43-62: a rejected statement
\* returns at once, an accepted one is handed to the backend with the handler
\* installed.
CallSafeQuery(caller, r, c, sql, msx_ms) ==
    IF Rejects(sql)
    THEN /\ sq' = [RejectedFrame(caller, sql, msx_ms) EXCEPT !.conn_id = c.id]
         /\ exec_dict' = RejectedDict(now - now)
         /\ Resume(caller, r, sql, c, RejectedDict(now - now))
    ELSE /\ sq' = [ExecutingFrame(caller, sql, msx_ms) EXCEPT !.conn_id = c.id]
         /\ exec_dict' = exec_dict
         /\ conn' = Install(c, Deadline(now, msx_ms))
         /\ run' = IF caller = "agent" THEN [r EXCEPT !.pc = "executing"] ELSE r
         /\ stage' = caller
         /\ runner' = runner

\* safe_query catches the sqlite3.Error whose message is msg, lines 72-83
Caught(msg, aborted) ==
    LET d == ErrorDict(now - sq.start, msg)
    IN  /\ sq' = [sq EXCEPT !.pc = "returned", !.error = TRUE, !.aborted = aborted]
        /\ exec_dict' = d
        /\ Resume(sq.caller, run, sq.sql, Finally(conn), d)

\* The backend has run another 1000 virtual-machine steps and calls the
\* progress handler installed on the connection; on a non-zero answer it
\* raises OperationalError("interrupted").
BackendPoll ==
    /\ sq.pc = "executing"
    /\ conn.handler
    /\ IF _progress_handler(conn.deadline, now) # 0
       THEN Caught(msg_interrupted, TRUE)
       ELSE UNCHANGED <<conn, sq, exec_dict, run, stage, runner>>
    /\ UNCHANGED <<now, oracle, guardVars, compareVars>>

\* cursor.execute and cursor.fetchall complete, lines 62-71 and 83
BackendFinish ==
    /\ sq.pc = "executing"
    /\ \E rows \in ResultSets :
           LET d == SuccessDict(now - sq.start, rows)
           IN  /\ sq' = [sq EXCEPT !.pc = "returned"]
               /\ exec_dict' = d
               /\ Resume(sq.caller, run, sq.sql, Finally(conn), d)
    /\ UNCHANGED <<now, oracle, guardVars, compareVars>>

\* the backend raises a sqlite3.Error of its own
BackendError ==
    /\ sq.pc = "executing"
    /\ \E msg \in BackendErrors(sq.sql) : Caught(msg, FALSE)
    /\ UNCHANGED <<now, oracle, guardVars, compareVars>>

\* an exception that is no sqlite3.Error leaves the try block, line 83 runs
BackendRaise ==
    /\ sq.pc = "executing"
    /\ sq' = [sq EXCEPT !.pc = "raised"]
    /\ exec_dict' = exec_dict
    /\ Propagate(sq.caller, run, "Exception", Finally(conn))
    /\ UNCHANGED <<now, oracle, guardVars, compareVars>>

\* a runner that goes on with the turn however agent.run ended
RunEnded == stage = "done"

\* agent.run has returned to run_experiment, functions.py:100-106
RunReturned == stage = "done" /\ run.pc = "returned"

\* The turn has reference SQL: run_experiment executes it with the budget of
\* the run on a connection of its own, functions.py:124-130;
\* get_db_connection may raise.
GoldQuery ==
    /\ RunReturned
    /\ \E gold_sql \in GoldPool, opens \in BOOLEAN :
           IF opens
           THEN CallSafeQuery("gold", run, GoldConn, gold_sql, run.msx_ms)
           ELSE /\ stage' = "crashed"
                /\ UNCHANGED <<conn, sq, exec_dict, run, runner>>
    /\ UNCHANGED <<now, oracle, guardVars, compareVars>>

\* The turn has no reference SQL (gold_sql is None, empty or blank, line
\* 124): the turn is recorded without a reference execution.
NoGold ==
    /\ RunReturned
    /\ \E gold_sql \in {None, Some(<<>>), Some(<<" ">>)}, order_insensitive \in BOOLEAN :
           runner' = Record(runner, run, gold_sql, None, order_insensitive)
    /\ stage' = "recorded"
    /\ UNCHANGED <<now, conn, sq, exec_dict, run, oracle, guardVars, compareVars>>

\* run(question, db_file, msx_ms, max_steps) up to its loop, lines 198-204:
\* get_db_connection may raise before there is a connection, and
\* get_database_schema may raise once it is open
RunStart ==
    /\ stage = "idle"
    /\ \E max_steps \in 0..StepBound, msx_ms \in Budgets,
          outcome \in {"connected", "no_database", "no_schema"} :
           LET r == [IdleRun EXCEPT !.max_steps = max_steps, !.msx_ms = msx_ms]
           IN  IF outcome = "connected"
               THEN /\ conn' = NewConn
                    /\ run' = [r EXCEPT !.pc = "loop", !.connects = 1,
                                        !.schema_reads = 1, !.schema = Some(db_schema)]
                    /\ stage' = "agent"
               ELSE /\ conn' = IF outcome = "no_schema" THEN NewConn ELSE NoConn
                    /\ run' = [r EXCEPT !.pc = "raised", !.raised = Some(outcome),
                                        !.connects = IF outcome = "no_schema" THEN 1 ELSE 0,
                                        !.schema_reads = IF outcome = "no_schema" THEN 1 ELSE 0]
                    /\ stage' = "done"
    /\ UNCHANGED <<now, sq, exec_dict, oracle, runner, guardVars, compareVars>>

\* a loop that goes round once more than max_steps allows
LoopContinuesOnceMore(r) == r.round <= r.max_steps

\* for _ in range(max_steps), line 206: there is another round to run
LoopContinues(r) == r.round < r.max_steps

\* the reply is a query that carries SQL
IsQuery(reply) ==
    /\ reply.kind = "object"
    /\ ActionOf(reply) = <<"q", "u", "e", "r", "y">>
    /\ Strip(reply.sql, Whitespace) # <<>>

\* one round of the loop, lines 206-244, up to the call of safe_query
Plan ==
    /\ stage = "agent"
    /\ run.pc = "loop"
    /\ LoopContinues(run)
    /\ \E reply \in Replies :
           LET sql == Strip(reply.sql, Whitespace)
           IN  /\ oracle' = [oracle EXCEPT !.planning = @ + 1,
                                           !.onlyQueries = @ /\ IsQuery(reply),
                                           !.last = Some(reply),
                                           !.failure = IF reply.kind = "object" THEN None
                                                       ELSE Some(reply.kind),
                                           !.prompt = _steps_for_prompt(run.steps),
                                           !.schema = Some(schema_text(run)),
                                           !.sameSchema =
                                               /\ @
                                               /\ oracle.schema \in {None, Some(schema_text(run))}]
               /\ IF ~Decoded(reply)
                  THEN RaiseRun(run, reply.kind, conn) /\ UNCHANGED <<sq, exec_dict>>
                  ELSE IF action_is_final(ActionOf(reply))
                  THEN /\ ReturnRun(run, Strip(reply.final_answer, Whitespace), conn)
                       /\ UNCHANGED <<sq, exec_dict>>
                  ELSE IF ~action_is_query(ActionOf(reply))
                  THEN ReturnRun(run, msg_invalid_action, conn) /\ UNCHANGED <<sq, exec_dict>>
                  ELSE IF no_sql(sql)
                  THEN ReturnRun(run, msg_no_sql, conn) /\ UNCHANGED <<sq, exec_dict>>
                  ELSE CallSafeQuery("agent", [run EXCEPT !.executions = @ + 1],
                                     conn, sql, run.msx_ms)
    /\ UNCHANGED <<now, guardVars, compareVars>>

\* the loop is exhausted and final_answer is None: the summarization call,
\* lines 246-260
Summarize ==
    /\ stage = "agent"
    /\ run.pc = "loop"
    /\ ~LoopContinues(run)
    /\ \E reply \in Replies :
           /\ oracle' = [oracle EXCEPT !.summarization = @ + 1,
                                       !.summary = IF Decoded(reply)
                                                   THEN Some(reply.final_answer)
                                                   ELSE None,
                                       !.failure = IF reply.kind = "object" THEN None
                                                   ELSE Some(reply.kind),
                                       !.prompt = _steps_for_prompt(run.steps)]
           /\ IF ~Decoded(reply)
              THEN RaiseRun(run, reply.kind, conn)
              ELSE ReturnRun(run, Strip(reply.final_answer, Whitespace), conn)
    /\ UNCHANGED <<now, sq, exec_dict, guardVars, compareVars>>

Next ==
    \/ Tick
    \/ RunStart
    \/ Plan
    \/ Summarize
    \/ BackendPoll
    \/ BackendFinish
    \/ BackendError
    \/ BackendRaise

Spec == Init /\ [][Next]_vars

\* one turn of run_experiment: the run of the agent, then the reference
\* execution and the record of the turn
TurnNext ==
    \/ Next
    \/ GoldQuery
    \/ NoGold

SpecTurn == GuardInit("turn") /\ [][TurnNext]_vars

-----------------------------------------------------------------------------
(* run_experiment over several turns: each turn is given by what agent.run *)
(* returned and what the reference execution returned.                     *)

MaxTurns == 3

\* transcripts agent.run returns: no step, a step that succeeded with no
\* row or one row, a rejected step, a step that succeeded and then a
\* rejected one
Transcripts ==
    { <<>>,
      <<QueryStep(sql_select, SuccessDict(1, <<>>))>>,
      <<QueryStep(sql_select, SuccessDict(1, <<Row("tuple", <<5>>)>>))>>,
      <<QueryStep(sql_select, SuccessDict(1, <<>>)),
        QueryStep(sql_drop, RejectedDict(0))>> }

\* gold_sql and what safe_query returned for it; no execution when gold_sql
\* is None or blank
References ==
    { [gold_sql |-> None, gold_exec |-> None],
      [gold_sql |-> Some(<<" ">>), gold_exec |-> None],
      [gold_sql |-> Some(sql_select),
       gold_exec |-> Some(SuccessDict(1, <<Row("tuple", <<5>>)>>))],
      [gold_sql |-> Some(sql_drop), gold_exec |-> Some(RejectedDict(0))] }

\* eval.compare_order_insensitive is one value for the whole experiment
OrderModes ==
    IF runner.items = <<>> THEN BOOLEAN ELSE {runner.items[1].order_insensitive}

\* one pass of the loop over turns, functions.py:93-165
Turn ==
    /\ stage \in {"idle", "recorded"}
    /\ Len(runner.items) < MaxTurns
    /\ \E steps \in Transcripts, ref \in References, order_insensitive \in OrderModes :
           runner' = Record(runner, [steps |-> steps, final_answer |-> Some(<<>>)],
                            ref.gold_sql, ref.gold_exec, order_insensitive)
    /\ stage' = "recorded"
    /\ UNCHANGED <<now, conn, sq, exec_dict, run, oracle, guardVars, compareVars>>

\* the loop is over: accuracy and the metrics of results_payload, lines
\* 167-181
Finish ==
    /\ stage \in {"idle", "recorded"}
    /\ runner' = [runner EXCEPT !.metrics = Some(Metrics(runner))]
    /\ stage' = "finished"
    /\ UNCHANGED <<now, conn, sq, exec_dict, run, oracle, guardVars, compareVars>>

NextExperiment == Turn \/ Finish

SpecExperiment == GuardInit("experiment") /\ [][NextExperiment]_vars


-----------------------------------------------------------------------------
(* Two turns at work at once. Each is BasicAgent.run with replies that     *)
(* decode (a query or final), on the connection connect_to_db opened for   *)
(* it; the steps of the two interleave freely and the clock is shared.     *)

MaxPairSteps == 1

MaxPairTime == 2

PairIds == <<"first", "second">>

\* the SQL texts the model offers to each turn, one accepted and one rejected
PairSql(t) == IF t = 1 THEN {sql_select, sql_drop} ELSE {sql_interrupted, sql_batch}

\* the budgets of each turn: the two turns have different ones
PairBudgets(t) == {t}

\* one connection for the two turns
connection_shared(t) == 1

\* conn, schema = connect_to_db(db_file), line 198: a connection of its own
\* for each run
connection_of(t) == t

\* the other turn
Other(t) == 3 - t

\* the pair after turn t has moved to r, its connection being c
PairWith(t, r, c) ==
    [conns |-> [pair.conns EXCEPT ![pair.t[t].conn] = c],
     t |-> [pair.t EXCEPT ![t] = r]]

\* run appends the step of the dict d and goes round its loop, lines 236-244
PairStep(t, c, d) ==
    PairWith(t, [pair.t[t] EXCEPT !.pc = "loop",
                                  !.steps = steps_append(@, QueryStep(pair.t[t].sql, d)),
                                  !.round = @ + 1],
             c)

\* time passes while a statement is being executed
PairTick ==
    /\ \E t \in Turns : pair.t[t].pc = "executing"
    /\ now < MaxPairTime
    /\ now' = now + 1
    /\ UNCHANGED <<conn, sq, exec_dict, agentVars, guardVars, compareVars>>

\* run(question, db_file, msx_ms, max_steps) of turn t up to its loop
PairStart(t) ==
    /\ pair.t[t].pc = "idle"
    /\ \E msx_ms \in PairBudgets(t), max_steps \in 0..MaxPairSteps :
           pair' = [conns |-> [pair.conns EXCEPT ![connection_of(t)] =
                                   [NewConn EXCEPT !.id = PairIds[t]]],
                    t |-> [pair.t EXCEPT ![t] =
                               [IdleTurn EXCEPT !.pc = "loop", !.msx_ms = msx_ms,
                                                !.max_steps = max_steps,
                                                !.conn = connection_of(t)]]]
    /\ UNCHANGED <<guardVars, engineVars, agentVars, cmp, trunc>>

\* the end of run of turn t, lines 260-269: the finally clause closes its
\* connection, and close() may raise
PairReturn(t) ==
    \E closes \in BOOLEAN :
        pair' = PairWith(t, [pair.t[t] EXCEPT !.pc = IF closes THEN "returned"
                                                     ELSE "raised"],
                         IF closes THEN Close(pair.conns[pair.t[t].conn])
                         ELSE CloseFails(pair.conns[pair.t[t].conn]))

\* one round of the loop of turn t, lines 206-244, up to the call of
\* safe_query, and safe_query up to cursor.execute, lines 43-62
PairPlan(t) ==
    /\ pair.t[t].pc = "loop"
    /\ LoopContinues(pair.t[t])
    /\ \/ PairReturn(t)
       \/ \E sql \in PairSql(t) :
              LET r == [pair.t[t] EXCEPT !.sql = sql, !.start = now]
                  c == pair.conns[r.conn]
              IN  IF Rejects(sql)
                  THEN pair' = PairWith(t, [r EXCEPT !.pc = "loop",
                                               !.steps = steps_append(@,
                                                   QueryStep(sql, RejectedDict(now - now))),
                                               !.round = @ + 1],
                                        c)
                  ELSE pair' = PairWith(t, [r EXCEPT !.pc = "executing"],
                                        Install(c, Deadline(now, r.msx_ms)))
    /\ UNCHANGED <<guardVars, engineVars, agentVars, cmp, trunc>>

\* the loop of turn t is exhausted: the summarization call and the return
PairSummarize(t) ==
    /\ pair.t[t].pc = "loop"
    /\ ~LoopContinues(pair.t[t])
    /\ PairReturn(t)
    /\ UNCHANGED <<guardVars, engineVars, agentVars, cmp, trunc>>

\* the backend of turn t calls the progress handler installed on the
\* connection of turn t; on a non-zero answer it raises "interrupted", which
\* safe_query catches, lines 72-83
PairPoll(t) ==
    /\ pair.t[t].pc = "executing"
    /\ pair.conns[pair.t[t].conn].handler
    /\ _progress_handler(pair.conns[pair.t[t].conn].deadline, now) # 0
    /\ pair' = PairStep(t, Finally(pair.conns[pair.t[t].conn]),
                        ErrorDict(now - pair.t[t].start, msg_interrupted))
    /\ UNCHANGED <<guardVars, engineVars, agentVars, cmp, trunc>>

\* cursor.execute and cursor.fetchall of turn t complete, lines 62-71 and 83
PairFinish(t) ==
    /\ pair.t[t].pc = "executing"
    /\ pair' = PairStep(t, Finally(pair.conns[pair.t[t].conn]),
                        SuccessDict(now - pair.t[t].start, <<Row("tuple", <<t>>)>>))
    /\ UNCHANGED <<guardVars, engineVars, agentVars, cmp, trunc>>

\* the backend of turn t raises another sqlite3.Error, lines 72-83
PairError(t) ==
    /\ pair.t[t].pc = "executing"
    /\ \E msg \in BackendErrors(pair.t[t].sql) :
           pair' = PairStep(t, Finally(pair.conns[pair.t[t].conn]),
                            ErrorDict(now - pair.t[t].start, msg))
    /\ UNCHANGED <<guardVars, engineVars, agentVars, cmp, trunc>>

NextPair ==
    \/ PairTick
    \/ \E t \in Turns :
           \/ PairStart(t)
           \/ PairPlan(t)
           \/ PairSummarize(t)
           \/ PairPoll(t)
           \/ PairFinish(t)
           \/ PairError(t)

SpecPair == GuardInit("pair") /\ [][NextPair]_vars

-----------------------------------------------------------------------------
(* The guard's contract *)

\* C1: a text that holds a vocabulary term as a whole word outside comments
\* and string literals, as the SQL backend splits it, is never classified
\* read-only, whatever it begins with.
C1_BareKeywordRejected ==
    (phase = "classified" /\ HasBareKeyword(statement)) => ~readOnly

\* C2: a text that begins with SELECT, WITH or EXPLAIN [QUERY PLAN]
\* SELECT/WITH, whose comments and literals are all closed and whose
\* vocabulary terms, if any, are all inside comments or string literals, is
\* classified read-only.
C2_HiddenKeywordAllowed ==
    (/\ phase = "classified"
     /\ BeginsAsQuery(statement)
     /\ LexicallyClosed(statement, 1)
     /\ ~HasBareKeyword(statement)) => readOnly

\* C3: when a text is classified read-only, so is the text obtained by
\* changing the content of one of its string literals to hold a vocabulary
\* term.
C3_LiteralContentIrrelevant ==
    (phase = "edited" /\ readOnly) => editedReadOnly

\* s without its leading and trailing characters that are in chars
Trimmed(s, chars) ==
    LET keep == {i \in 1..Len(s) : s[i] \notin chars}
    IN  IF keep = {} THEN <<>> ELSE SubSeq(s, Min(keep), Max(keep))

\* s without its trailing characters that are in chars
TrimmedRight(s, chars) ==
    LET keep == {i \in 1..Len(s) : s[i] \notin chars}
    IN  IF keep = {} THEN <<>> ELSE SubSeq(s, 1, Max(keep))

\* w stands in c at p as a whole word: no word character touches it
WholeWordAt(c, p, w) ==
    /\ At(c, p, w)
    /\ p = 1 \/ ~IsWordChar(c[p - 1])
    /\ p + Len(w) > Len(c) \/ ~IsWordChar(c[p + Len(w)])

AllSpace(c, a, b) == \A k \in a..b : IsSpace(c[k])

\* the positions at which the whole word w2 follows, after whitespace, a
\* word w that stands at a position of P
Following(c, P, w, w2) ==
    {q \in 1..Len(c) :
        /\ WholeWordAt(c, q, w2)
        /\ \E p \in P : q > p + Len(w) /\ AllSpace(c, p + Len(w), q - 1)}

\* the positions at which the whole word w is the first thing of c
Leading(c, w) ==
    {p \in 1..Len(c) : WholeWordAt(c, p, w) /\ AllSpace(c, 1, p - 1)}

\* c starts with select or with as its first token, after an optional
\* explain or explain query plan
StartsAsQuery(c) ==
    \E h \in {kw_select, kw_with} :
        LET e == Leading(c, kw_explain)
            q == Following(c, e, kw_explain, kw_query)
            p == Following(c, q, kw_query, kw_plan)
        IN  \/ Leading(c, h) # {}
            \/ Following(c, e, kw_explain, h) # {}
            \/ Following(c, p, kw_plan, h) # {}

ContainsVocabularyWord(c) ==
    \E p \in 1..Len(c), w \in Vocabulary : WholeWordAt(c, p, w)

\* C4 as stated: read-only iff the sanitized text, trimmed of surrounding
\* whitespace and of trailing semicolons and lower-cased, starts as a query
\* and holds no vocabulary term as a whole word.
C4_ClassifyTrailingSemicolons ==
    phase = "classified" =>
        LET c == TrimmedRight(Lower(Trimmed(_strip_comments_and_literals(statement),
                                            Whitespace)), {";"})
        IN  readOnly <=> (StartsAsQuery(c) /\ ~ContainsVocabularyWord(c))

\* C4 amended: read-only iff the sanitized text, trimmed of surrounding
\* whitespace, lower-cased and then trimmed of semicolons at both ends, starts
\* (after any whitespace left in front) as a query and holds no vocabulary
\* term as a whole word.
C4_ClassifyBothSemicolons ==
    phase = "classified" =>
        LET c == Trimmed(Lower(Trimmed(_strip_comments_and_literals(statement),
                                       Whitespace)), {";"})
        IN  readOnly <=> (StartsAsQuery(c) /\ ~ContainsVocabularyWord(c))

\* a text with a semicolon in front and an explain prefix is classified
\* read-only
C4_Witness ==
    /\ phase = "classified"
    /\ readOnly
    /\ statement # <<>> /\ statement[1] = ";"
    /\ \E i \in 1..Len(statement) : At(Lower(statement), i, kw_explain)

-----------------------------------------------------------------------------
(* The engine's contract *)

\* the call of safe_query in sq has returned a dict, which is exec_dict
Returned == sq.pc = "returned"

\* the statements of the pool that _is_read_only accepts
ReadOnlySql == {sql \in SqlPool : _is_read_only(sql)}

\* C5: a statement the guard rejects is never given to cursor.execute and
\* no progress handler is installed for it; the call returns NoSafe with
\* success false and no results, and the connection carries no handler.
C5_GuardBeforeEngine ==
    /\ sq.pc # "idle" => sq.sql \in SqlPool
    /\ (sq.handed \/ sq.installed) => sq.sql \in ReadOnlySql
    /\ (sq.pc # "idle" /\ sq.sql \notin ReadOnlySql) =>
           /\ Returned
           /\ exec_dict.status = "NoSafe"
           /\ ~exec_dict.success
           /\ exec_dict.results = <<>>
           /\ ~sq.handed /\ ~sq.installed
           /\ ~conn.handler /\ conn.deadline = None

\* the agent's statement begins with select, is rejected and becomes a step
C5_Witness ==
    /\ Returned
    /\ sq.caller = "agent"
    /\ sq.sql = sql_batch
    /\ exec_dict.status = "NoSafe"
    /\ run.steps # <<>>
    /\ run.steps[Len(run.steps)].execution.status = "NoSafe"

\* C6 as stated: a call with msx_ms > 0 on accepted SQL whose elapsed time is
\* greater than msx_ms returns TimeOut, success false, elapsed_ms >= msx_ms.
C6_PastDeadlineIsTimeOut ==
    (Returned /\ sq.handed /\ sq.msx_ms > 0 /\ exec_dict.elapsed_ms > sq.msx_ms) =>
        /\ exec_dict.status = "TimeOut"
        /\ ~exec_dict.success
        /\ exec_dict.elapsed_ms >= sq.msx_ms

\* C6 amended: a call during which the progress handler asked for an abort
\* has msx_ms > 0 and returns TimeOut, success false, elapsed_ms >= msx_ms.
C6_AbortIsTimeOut ==
    (Returned /\ sq.aborted) =>
        /\ sq.msx_ms > 0
        /\ exec_dict.status = "TimeOut"
        /\ ~exec_dict.success
        /\ exec_dict.elapsed_ms >= sq.msx_ms

\* an abort that came later than the deadline
C6_Witness ==
    /\ Returned
    /\ sq.aborted
    /\ exec_dict.status = "TimeOut"
    /\ exec_dict.elapsed_ms > sq.msx_ms

\* C7: a dict has status TimeOut only when the handler asked for an abort,
\* every other caught error gives ExecFailed, and a call with msx_ms <= 0
\* never gives TimeOut.
C7_TimeOutOnlyOnAbort ==
    Returned =>
        /\ exec_dict.status = "TimeOut" => sq.aborted
        /\ (sq.error /\ ~sq.aborted) => exec_dict.status = "ExecFailed"
        /\ sq.msx_ms <= 0 => exec_dict.status # "TimeOut"

Coherent(d) ==
    /\ d.success <=> d.status = "success"
    /\ ~d.success => (d.results = <<>> /\ d.error # None)
    /\ d.success => d.error = None

\* C9: a returned dict has success true iff the guard accepted the
\* statement, no abort was asked for and no sqlite3 error was caught, and iff
\* its status is "success"; without success it has no results and an error
\* message, with success it has no error. The same holds of the dicts kept in
\* the steps of the run.
C9_SuccessIffCleanRun ==
    /\ Returned =>
           /\ exec_dict.success <=> (sq.handed /\ ~sq.aborted /\ ~sq.error)
           /\ Coherent(exec_dict)
    /\ \A k \in DOMAIN run.steps : Coherent(run.steps[k].execution)

\* a success with rows after a round that failed
C9_Witness ==
    /\ Returned
    /\ exec_dict.success
    /\ exec_dict.results # <<>>
    /\ Len(run.steps) = 2
    /\ ~run.steps[1].execution.success

-----------------------------------------------------------------------------
(* The controller's contract *)

\* C10: while every planning reply is a query with SQL, the rounds, the
\* planning calls, the executions and the steps go together; the
\* summarization call is made once, after exactly max_steps rounds and with
\* nothing executing; and the run that returns has made max_steps rounds and
\* one summarization call, whose answer (str(...).strip()) it returns.
C10_RoundsThenOneSummary ==
    oracle.onlyQueries =>
        /\ oracle.summarization <= 1
        /\ oracle.planning = run.executions
        /\ oracle.planning <= run.max_steps
        /\ Len(run.steps) = run.round
        /\ run.round = IF run.pc = "executing" \/ (run.pc = "raised" /\ sq.pc = "raised")
                       THEN oracle.planning - 1
                       ELSE oracle.planning
        /\ oracle.summarization = 1 =>
               /\ oracle.planning = run.max_steps
               /\ Len(run.steps) = run.max_steps
               /\ sq.pc # "executing"
        /\ run.pc = "returned" =>
               /\ oracle.summarization = 1
               /\ oracle.summary # None
               /\ run.final_answer = Some(Strip(oracle.summary[1], Whitespace))

\* a run of two query rounds has returned the padded answer, stripped
C10_Witness ==
    /\ oracle.onlyQueries
    /\ run.pc = "returned"
    /\ run.max_steps = 2
    /\ Len(run.steps) = 2
    /\ oracle.summarization = 1
    /\ oracle.summary = Some(<<" ", "5">>)
    /\ run.final_answer = Some(<<"5">>)

-----------------------------------------------------------------------------
(* The transcript and the ways a run ends *)

\* the run ended: it returned, or close() raised on its way out
EndedNormally ==
    /\ stage = "done"
    /\ run.pc = "returned" \/ (run.pc = "raised" /\ run.raised = Some("close"))

\* C11: the step list of a run only grows, by one step at its end at a
\* time, and never has more than max_steps steps; the run that returns hands
\* back one step for each execution it made, in the order they were made.
C11_TranscriptAppendOnly ==
    /\ [](Len(run.steps) <= run.max_steps)
    /\ [](run.pc = "returned" => Len(run.steps) = run.executions)
    /\ [][\/ run'.steps = run.steps
          \/ /\ Len(run'.steps) = Len(run.steps) + 1
             /\ SubSeq(run'.steps, 1, Len(run.steps)) = run.steps]_vars

\* a returned run with two different steps
C11_Witness ==
    /\ run.pc = "returned"
    /\ Len(run.steps) = 2
    /\ run.steps[1] # run.steps[2]

\* the reply, as the model wrote it, asks for the end of the run
RepliesFinal(reply) ==
    /\ reply.kind = "object"
    /\ reply.action = <<"F", "i", "n", "a", "l", " ">>

\* the reply, as the model wrote it, asks for a query
RepliesQuery(reply) ==
    /\ reply.kind = "object"
    /\ reply.action = <<"q", "u", "e", "r", "y">>

\* the text is empty or white space
Blank(text) == \A i \in DOMAIN text : IsSpace(text[i])

\* what holds of a run that its planning reply of round k ended without an
\* execution: k - 1 steps, k - 1 executions, k planning calls, no
\* summarization call, nothing executing
EndedInRound ==
    /\ EndedNormally
    /\ oracle.planning >= 1
    /\ oracle.planning <= run.max_steps
    /\ Len(run.steps) = oracle.planning - 1
    /\ run.executions = oracle.planning - 1
    /\ oracle.summarization = 0
    /\ sq.pc # "executing"

\* C12: when the planning reply of round k has action final, the run ends
\* with that reply's final_answer (stripped) as its answer, nothing was
\* executed in round k, no other call of the model follows and the steps are
\* the k - 1 of the earlier rounds.
C12_FinalEndsRun ==
    (oracle.last # None /\ RepliesFinal(oracle.last[1])) =>
        /\ EndedInRound
        /\ run.final_answer = Some(Strip(oracle.last[1].final_answer, Whitespace))

\* final in the second round, after one step
C12_Witness ==
    /\ oracle.last # None /\ RepliesFinal(oracle.last[1])
    /\ run.pc = "returned"
    /\ oracle.planning = 2
    /\ Len(run.steps) = 1
    /\ run.final_answer = Some(<<"5">>)

\* C13: when the planning reply has action query and its sql is empty, blank
\* or missing, the run ends normally with the diagnostic that no SQL was
\* provided; no step is appended for the round, nothing is executed and no
\* summarization call is made.
C13_NoSqlEndsRun ==
    (oracle.last # None /\ RepliesQuery(oracle.last[1]) /\ Blank(oracle.last[1].sql)) =>
        /\ EndedInRound
        /\ run.final_answer = Some(msg_no_sql)

\* a blank sql in the second round, after one step
C13_Witness ==
    /\ oracle.last # None /\ RepliesQuery(oracle.last[1])
    /\ oracle.last[1].sql = <<" ">>
    /\ run.pc = "returned"
    /\ Len(run.steps) = 1
    /\ run.final_answer = Some(msg_no_sql)

\* the reply is an object whose action is neither query nor final
RepliesOther(reply) ==
    /\ reply.kind = "object"
    /\ reply.action \in {<<"d", "o", "n", "e">>, <<>>}

\* C14: when the planning reply is an object whose action is neither query
\* nor final, the run ends normally with the diagnostic of an invalid
\* action; the steps of the earlier rounds are kept, nothing is executed in
\* the round and no summarization call is made.
C14_InvalidActionEndsRun ==
    (oracle.last # None /\ RepliesOther(oracle.last[1])) =>
        /\ EndedInRound
        /\ run.final_answer = Some(msg_invalid_action)

\* an invalid action in the second round, the step of the first round kept
C14_Witness ==
    /\ oracle.last # None /\ RepliesOther(oracle.last[1])
    /\ run.pc = "returned"
    /\ Len(run.steps) = 1
    /\ run.steps[1].execution.status = "success"
    /\ run.final_answer = Some(msg_invalid_action)

\* the reply is not one object with action query and sql, or action final
\* and final_answer
Malformed(reply) ==
    ~ \/ RepliesQuery(reply) /\ ~Blank(reply.sql)
      \/ RepliesFinal(reply) /\ reply.final_answer # <<>>

\* C15 as stated: after a malformed planning reply the run raises and
\* returns nothing.
C15_MalformedRaises ==
    (oracle.last # None /\ Malformed(oracle.last[1])) => run.pc # "returned"

\* C15 amended: a reply, to a planning or to the summarization call, that is
\* no JSON or no JSON object makes the run raise that error and return
\* nothing; a planning reply that is an object but malformed ends the run
\* without an error of its own.
C15_UndecodableRaises ==
    /\ oracle.failure \in {Some("not_json"), Some("not_object")} =>
           /\ stage = "done"
           /\ run.pc = "raised"
           /\ run.raised = oracle.failure
    /\ (oracle.last # None /\ oracle.last[1].kind = "object"
            /\ Malformed(oracle.last[1])) => EndedNormally

\* a reply that is no object, after one step
C15_Witness ==
    /\ oracle.failure = Some("not_object")
    /\ oracle.planning = 2
    /\ Len(run.steps) = 1
    /\ run.pc = "raised"

\* C16: once a call of the model has failed, the run has raised that
\* failure, nothing is executing, and no call of the model and no execution
\* follows.
C16_FailureIsNotRetried ==
    /\ [](oracle.failure # None =>
              /\ stage = "done"
              /\ run.pc = "raised"
              /\ run.raised = oracle.failure
              /\ sq.pc # "executing")
    /\ [][oracle.failure # None =>
              /\ oracle' = oracle
              /\ run'.executions = run.executions
              /\ sq' = sq]_vars

\* the summarization call fails in transport after two steps
C16_Witness ==
    /\ oracle.failure = Some("transport")
    /\ oracle.summarization = 1
    /\ Len(run.steps) = 2
    /\ run.raised = Some("transport")

\* C17: when run has ended and a connection was opened for it, close() was
\* called on that connection.
C17_ConnectionClosed ==
    (stage = "done" /\ conn # NoConn) => conn.close_called

\* close() was called on the connection of the run and raised
CloseFailed == stage = "done" /\ conn.close_called /\ conn.open

\* C18: when close() raises at the end of run, the caller gets the failure
\* that was already on its way (of a call of the model, or of the backend),
\* and if there was none it gets the failure of close() and no result.
C18_CloseFailure ==
    CloseFailed =>
        /\ run.pc = "raised"
        /\ oracle.failure # None => run.raised = oracle.failure
        /\ sq.pc = "raised" => run.raised = Some("Exception")
        /\ (oracle.failure = None /\ sq.pc # "raised") => run.raised = Some("close")

\* close() raises while a transport failure is on its way
C18_Witness ==
    /\ CloseFailed
    /\ oracle.failure = Some("transport")
    /\ run.raised = Some("transport")

\* C19: when the database of the turn cannot be opened, run raises before
\* any round: no call of the model, no execution, no connection, and
\* run_experiment appends no item.
C19_NoDatabaseNoTurn ==
    run.raised = Some("no_database") =>
        /\ stage = "done"
        /\ run.pc = "raised"
        /\ oracle.planning = 0 /\ oracle.summarization = 0
        /\ run.executions = 0 /\ run.steps = <<>>
        /\ sq = IdleFrame
        /\ conn = NoConn
        /\ runner.items = <<>>

\* the database could not be opened
C19_Witness ==
    /\ run.raised = Some("no_database")
    /\ stage = "done"
    /\ runner = NoItems

\* C20: the dict of an execution of the run, whatever its status, is kept
\* as the last step and the run does not raise for it; until the next call
\* of the model a failed one leaves the run at its loop; and every request
\* to the model carries the steps
\* made before it, in order, with their status, success and error.
C20_FailuresAreSteps ==
    /\ (Returned /\ sq.caller = "agent") =>
           /\ run.steps # <<>>
           /\ LET st == run.steps[Len(run.steps)]
              IN  /\ st.sql = sq.sql
                  /\ st.execution.executed
                  /\ st.execution.status = exec_dict.status
                  /\ st.execution.success = exec_dict.success
                  /\ st.execution.error = exec_dict.error
           /\ run.pc = "raised" => (oracle.failure # None \/ run.raised = Some("close"))
           /\ (~exec_dict.success /\ oracle.planning = Len(run.steps)
                   /\ oracle.summarization = 0) =>
                  (stage = "agent" /\ run.pc = "loop")
    /\ Len(oracle.prompt) <= Len(run.steps)
    /\ \A i \in DOMAIN oracle.prompt :
           /\ oracle.prompt[i].step = i
           /\ oracle.prompt[i].sql = run.steps[i].sql
           /\ oracle.prompt[i].status = run.steps[i].execution.status
           /\ oracle.prompt[i].success = run.steps[i].execution.success
           /\ oracle.prompt[i].error = run.steps[i].execution.error
    /\ (run.pc # "loop" /\ oracle.planning + oracle.summarization > 0) =>
           Len(oracle.prompt) = Len(run.steps)
    /\ (run.pc = "loop" /\ run.steps # <<>>) =>
           Len(oracle.prompt) = Len(run.steps) - 1

\* the second planning request carries the step that timed out
C20_Witness ==
    /\ oracle.planning = 2
    /\ Len(oracle.prompt) = 1
    /\ oracle.prompt[1].status = "TimeOut"
    /\ ~oracle.prompt[1].success
    /\ oracle.prompt[1].error # None

-----------------------------------------------------------------------------
(* The comparison of result sets *)

\* the cells of a row: a list and a tuple are their cells, a bare value is
\* the one cell it is
RowCells(row) == IF row.type = "scalar" THEN <<row.cells[1]>> ELSE row.cells

\* how many rows of rows have the cells c
Occurrences(rows, c) ==
    Cardinality({k \in DOMAIN rows : RowCells(rows[k]) = c})

\* the two lists hold the same rows the same number of times
SameBag(a, b) ==
    \A c \in {RowCells(a[k]) : k \in DOMAIN a} \cup {RowCells(b[k]) : k \in DOMAIN b} :
        Occurrences(a, c) = Occurrences(b, c)

\* b is a rearrangement of a
IsPermutation(a, b) ==
    /\ Len(a) = Len(b)
    /\ \E f \in [DOMAIN a -> DOMAIN a] :
           /\ \A i, j \in DOMAIN a : f[i] = f[j] => i = j
           /\ \A k \in DOMAIN a : b[k] = a[f[k]]

\* the two lists are equal element by element
SameSequence(a, b) ==
    /\ Len(a) = Len(b)
    /\ \A k \in DOMAIN a : a[k] = b[k]

Compared == cmp.pc = "returned"

\* C21: compare_results of a list of rows and a rearrangement of it is true
\* when order_insensitive is set; when it is not set, the result is true
\* only for two lists that are equal element by element.
C21_PermutationEqual ==
    Compared =>
        /\ (cmp.order_insensitive /\ IsPermutation(cmp.pred_rows, cmp.gold_rows))
               => cmp.result
        /\ (~cmp.order_insensitive /\ cmp.result)
               => SameSequence(cmp.pred_rows, cmp.gold_rows)

\* two different orders of the same two rows compare equal
C21_Witness ==
    /\ Compared
    /\ cmp.order_insensitive
    /\ Len(cmp.pred_rows) = 2
    /\ cmp.pred_rows[1] # cmp.pred_rows[2]
    /\ cmp.gold_rows = <<cmp.pred_rows[2], cmp.pred_rows[1]>>
    /\ cmp.result

\* C22: with order_insensitive set, compare_results is true exactly when
\* the two lists hold the same rows the same number of times, a list and a
\* tuple of the same cells being one row and a bare value being the row of
\* that one cell; a repeated row counts, and so does the order of the cells
\* of a row.
C22_MultisetEquality ==
    (Compared /\ cmp.order_insensitive) =>
        (cmp.result <=> SameBag(cmp.pred_rows, cmp.gold_rows))

\* a list row and a bare value against the tuples of the same cells, in
\* the other order
C22_Witness ==
    /\ Compared
    /\ cmp.order_insensitive
    /\ cmp.pred_rows = <<Row("list", <<1, 2>>), Row("scalar", <<1>>)>>
    /\ cmp.gold_rows = <<Row("tuple", <<1>>), Row("tuple", <<1, 2>>)>>
    /\ cmp.result

-----------------------------------------------------------------------------
(* The record of a turn *)

\* the turn has been recorded
Recorded == stage = "recorded" /\ runner.items # <<>>

\* the record of the turn
TheItem == runner.items[Len(runner.items)]

\* both executions of the recorded turn succeeded
BothSucceeded(item) ==
    /\ item.pred_execution # None /\ item.pred_execution[1].success
    /\ item.gold_execution # None /\ item.gold_execution[1].success

\* C23: a turn recorded with order_insensitive off, whose prediction and
\* reference both succeeded with the same rows in the same order, has
\* results_match true.
C23_OrderSensitiveMatch ==
    (Recorded /\ ~TheItem.order_insensitive /\ BothSucceeded(TheItem)
        /\ LET p == TheItem.pred_execution[1].results
               g == TheItem.gold_execution[1].results
           IN  /\ Len(p) = Len(g)
               /\ \A k \in DOMAIN p : RowCells(p[k]) = RowCells(g[k]))
        => TheItem.results_match = Some(TRUE)

\* a reference was executed for the recorded turn
Attempted(item) == item.gold_execution # None

\* C24: results_match of a recorded turn is the result of compare_results
\* when both outcomes report success, false when a reference was executed
\* and not both succeeded (a transcript without steps included), and null
\* when there was no reference.
C24_VerdictOnlyWhenBothSucceed ==
    Recorded =>
        /\ (Attempted(TheItem) /\ BothSucceeded(TheItem)) =>
               TheItem.results_match \in {Some(TRUE), Some(FALSE)}
        /\ (Attempted(TheItem) /\ ~BothSucceeded(TheItem)) =>
               TheItem.results_match = Some(FALSE)
        /\ ~Attempted(TheItem) => TheItem.results_match = None

\* one side of the recorded turn has no successful execution
LacksSuccess(item) ==
    \/ item.pred_execution = None
    \/ ~item.pred_execution[1].success
    \/ Attempted(item) /\ ~item.gold_execution[1].success

\* C25 as stated: a turn in which one side has no successful execution is
\* recorded with a null results_match.
C25_NotComparableWithoutSuccess ==
    (Recorded /\ LacksSuccess(TheItem)) => TheItem.results_match = None

\* C25 amended: results_match is null when the transcript has no step or no
\* reference was executed; when both sides have an outcome and one of them
\* reports no success it is the boolean false.
C25_FalseWhenOneSideFails ==
    Recorded =>
        /\ (TheItem.pred_execution = None \/ ~Attempted(TheItem)) =>
               TheItem.results_match = None
        /\ (TheItem.pred_execution # None /\ Attempted(TheItem)
                /\ ~BothSucceeded(TheItem)) =>
               TheItem.results_match = Some(FALSE)

\* the prediction was rejected and the reference succeeded
C25_Witness ==
    /\ Recorded
    /\ TheItem.pred_execution # None
    /\ TheItem.pred_execution[1].status = "NoSafe"
    /\ Attempted(TheItem)
    /\ TheItem.gold_execution[1].success
    /\ TheItem.results_match = Some(FALSE)

\* gold_sql is None, empty or blank
NoReference(item) ==
    item.gold_sql = None \/ Strip(item.gold_sql[1], Whitespace) = <<>>

\* C26: a turn without reference SQL is recorded with a null results_match
\* and no reference execution, and moves neither comparable_count nor
\* match_count.
C26_NoReferenceNotCounted ==
    (Recorded /\ NoReference(TheItem)) =>
        /\ TheItem.results_match = None
        /\ TheItem.gold_execution = None
        /\ TheItem.gold_query_time_ms = None
        /\ sq.caller # "gold"
        /\ runner.comparable_count = 0
        /\ runner.match_count = 0
        /\ runner.gold_query_time_count = 0

\* a blank gold_sql after a prediction that succeeded
C26_Witness ==
    /\ Recorded
    /\ TheItem.gold_sql = Some(<<" ">>)
    /\ TheItem.pred_execution # None
    /\ TheItem.pred_execution[1].success
    /\ runner.comparable_count = 0

\* the rows of the two executions of the recorded turn have the same cells
SameRows(item) ==
    LET p == item.pred_execution[1].results
        g == item.gold_execution[1].results
    IN  /\ Len(p) = Len(g)
        /\ \A k \in DOMAIN p : RowCells(p[k]) = RowCells(g[k])

\* how many records satisfy P
CountItems(P(_)) == Cardinality({k \in DOMAIN runner.items : P(runner.items[k])})

IsMatch(item) == item.results_match = Some(TRUE)

\* C27: after any number of turns 0 <= matches <= comparable <= turns,
\* matches is the number of records whose results_match is true, and the
\* accuracy reported at the end is matches over comparable when comparable
\* is positive and null when it is 0.
C27_CountsAndAccuracy ==
    /\ 0 <= runner.match_count
    /\ runner.match_count <= runner.comparable_count
    /\ runner.comparable_count <= Len(runner.items)
    /\ runner.match_count = CountItems(IsMatch)
    /\ runner.comparable_count = CountItems(Attempted)
    /\ stage = "finished" =>
           /\ runner.metrics # None
           /\ runner.metrics[1].matches = CountItems(IsMatch)
           /\ runner.metrics[1].comparable = CountItems(Attempted)
           /\ runner.metrics[1].accuracy =
                  IF CountItems(Attempted) > 0
                  THEN Some(<<CountItems(IsMatch), CountItems(Attempted)>>)
                  ELSE None

\* three turns, two of them comparable, one of them a match
C27_Witness ==
    /\ stage = "finished"
    /\ Len(runner.items) = 3
    /\ runner.metrics # None
    /\ runner.metrics[1].accuracy = Some(<<1, 2>>)
    /\ \E k \in DOMAIN runner.items : runner.items[k].results_match = None

\* C28: the model replies with a query for the reference SQL and then with
\* final, both executions of that SQL succeed with the same rows, and
\* order_insensitive is set: the transcript has one step, results_match is
\* true, and the turn counts as one comparable and one match.
C28_ScriptedTurnMatches ==
    (Recorded /\ TheItem.order_insensitive
        /\ oracle.planning = 2 /\ RepliesFinal(oracle.last[1])
        /\ run.executions = 1
        /\ TheItem.gold_sql = Some(TheItem.pred_sql)
        /\ BothSucceeded(TheItem) /\ SameRows(TheItem))
        => /\ Len(TheItem.agent_result.steps) = 1
           /\ oracle.summarization = 0
           /\ TheItem.results_match = Some(TRUE)
           /\ runner.comparable_count = 1
           /\ runner.match_count = 1

\* the scripted turn, with one row returned
C28_Witness ==
    /\ Recorded /\ TheItem.order_insensitive
    /\ oracle.planning = 2 /\ RepliesFinal(oracle.last[1])
    /\ TheItem.gold_sql = Some(TheItem.pred_sql)
    /\ BothSucceeded(TheItem)
    /\ TheItem.gold_execution[1].results # <<>>
    /\ TheItem.results_match = Some(TRUE)
    /\ runner.match_count = 1

\* C29: when run fails hard (a call of the model fails, the database cannot
\* be opened or read, the backend or close() raises), the turn gets no
\* record and match_count does not move.
C29_FailureNeverMatches ==
    (oracle.failure # None \/ run.pc = "raised") =>
        /\ stage = "done"
        /\ runner.items = <<>>
        /\ runner.match_count = 0

\* the reply to the second request is no JSON, after a step that succeeded
C29_Witness ==
    /\ oracle.failure = Some("not_json")
    /\ Len(run.steps) = 1
    /\ run.steps[1].execution.success
    /\ stage = "done"
    /\ runner = NoItems

\* C30: the prediction recorded for a turn is the SQL and the outcome of the
\* last step of the transcript, whatever the earlier steps were; a
\* transcript without steps gives an empty SQL and no outcome.
C30_PredictionIsLastStep ==
    Recorded =>
        LET steps == run.steps
            n == Len(steps)
        IN  /\ Len(TheItem.agent_result.steps) = n
            /\ IF n = 0
               THEN /\ TheItem.pred_sql = <<>>
                    /\ TheItem.pred_execution = None
                    /\ TheItem.pred_query_time_ms = None
                    /\ TheItem.results_match = None
               ELSE /\ TheItem.pred_sql = steps[n].sql
                    /\ TheItem.pred_execution # None
                    /\ TheItem.pred_execution[1].status = steps[n].execution.status
                    /\ TheItem.pred_execution[1].success = steps[n].execution.success
                    /\ TheItem.pred_execution[1].results = steps[n].execution.results
                    /\ TheItem.pred_execution[1].error = steps[n].execution.error
                    /\ TheItem.pred_query_time_ms = Some(steps[n].execution.elapsed_ms)

\* a step that succeeded, then one that was rejected: the prediction is the
\* rejected one
C30_Witness ==
    /\ Recorded
    /\ Len(run.steps) = 2
    /\ run.steps[1].execution.success
    /\ ~run.steps[2].execution.success
    /\ TheItem.pred_sql = run.steps[2].sql
    /\ TheItem.pred_sql # run.steps[1].sql
    /\ Attempted(TheItem) /\ TheItem.gold_execution[1].success
    /\ TheItem.results_match = Some(FALSE)

-----------------------------------------------------------------------------
(* The rounds of a run, its connection and its requests *)

C32_OneConnectionOneSchema ==
    /\ run.connects <= 1 /\ run.schema_reads <= 1
    /\ run.pc \in {"loop", "executing", "returned"} =>
           /\ run.connects = 1
           /\ run.schema_reads = 1
           /\ run.schema # None
    /\ oracle.planning + oracle.summarization > 0 =>
           /\ run.connects = 1
           /\ run.schema # None
    /\ (sq.pc # "idle" /\ sq.caller = "agent") =>
           /\ sq.conn_id = "run"
           /\ conn.id = "run"
    /\ oracle.planning > 0 =>
           /\ oracle.sameSchema
           /\ oracle.schema = run.schema

\* the second execution of a run is under way
C32_Witness ==
    /\ oracle.planning = 2
    /\ run.executions = 2
    /\ run.pc = "executing"
    /\ sq.conn_id = "run"
    /\ conn.handler
    /\ oracle.schema = Some(db_schema)

\* the rows of the result are the first rows of the argument, in order:
\* each keeps the first character of the row it was made of
FirstRowsInOrder ==
    \A k \in DOMAIN trunc.out :
        \A j \in DOMAIN trunc.out[k].cells :
            trunc.out[k].cells[j] # <<>> =>
                trunc.out[k].cells[j][1] = trunc.results[k].cells[j][1]

\* C33: the truncated results hold the first rows of the results, in
\* order, at most 20 of them, and no cell of them is longer than 200
\* characters.
C33_PreviewBounded ==
    trunc.pc = "returned" =>
        /\ Len(trunc.out) = Min({Len(trunc.results), 20})
        /\ FirstRowsInOrder
        /\ \A k \in DOMAIN trunc.out :
               \A j \in DOMAIN trunc.out[k].cells :
                   Len(trunc.out[k].cells[j]) <= 200

\* the part of C33 about the rows alone
C33_RowsBounded ==
    trunc.pc = "returned" =>
        /\ Len(trunc.out) = Min({Len(trunc.results), 20})
        /\ FirstRowsInOrder

\* the calls of the model made by the run: planning and summarization
OracleCalls == oracle.planning + oracle.summarization

\* C36: a run that returns has made one call of the model more than its
\* transcript has steps, whichever way it ended; and at all times the calls
\* of the model are at most max_steps + 1, the executions are at most
\* max_steps, and every execution that has come back has left one step (an
\* execution under way, or one that raised out of the run, has left none
\* yet).
C36_CallsAndSteps ==
    /\ run.pc = "returned" => OracleCalls = Len(run.steps) + 1
    /\ OracleCalls <= run.max_steps + 1
    /\ run.executions <= run.max_steps
    /\ Len(run.steps) <= run.max_steps
    /\ run.pc \in {"idle", "loop", "returned"} => run.executions = Len(run.steps)
    /\ run.pc \in {"executing", "raised"} =>
           run.executions \in {Len(run.steps), Len(run.steps) + 1}
    /\ run.pc = "executing" => run.executions = Len(run.steps) + 1

\* a run of two rounds returns on the final action of its second round
C36_Witness ==
    /\ run.pc = "returned"
    /\ run.max_steps = 2
    /\ oracle.planning = 2 /\ oracle.summarization = 0
    /\ Len(run.steps) = 1
    /\ run.executions = 1

\* a run of two rounds returns through the summarization call
C36_WitnessSummarized ==
    /\ run.pc = "returned"
    /\ oracle.planning = 2 /\ oracle.summarization = 1
    /\ Len(run.steps) = 2

\* the record carries a verdict, true or false
HasVerdict(item) == item.results_match # None

\* C37: after any sequence of turns the comparable count is the number of
\* records whose results_match is true or false; a turn recorded with
\* results_match null is not counted.
C37_DenominatorCountsVerdicts ==
    /\ runner.comparable_count = CountItems(HasVerdict)
    /\ stage = "finished" =>
           runner.metrics[1].comparable = CountItems(HasVerdict)

\* The reference execution begins: safe_query is entered for run_experiment.
\* It begins once the run has returned and its connection was closed, on the
\* connection opened for it, with the budget of the run.
C34_BeginsAfterRun ==
    [][(sq'.caller = "gold" /\ sq.caller # "gold") =>
           /\ RunReturned
           /\ conn.id # "gold" /\ ~conn.open /\ conn.close_called
           /\ sq'.conn_id = "gold" /\ conn'.id = "gold"
           /\ sq'.msx_ms = run.msx_ms
           /\ sq'.sql \in GoldPool]_vars

\* However the reference execution ended (a dict came back, or safe_query
\* raised), close() was called on its connection and the handler is off.
C34_ClosedOnEveryPath ==
    (sq.caller = "gold" /\ stage \in {"recorded", "crashed"}) =>
        /\ conn.id = "gold"
        /\ conn.close_called
        /\ ~conn.handler

\* A reference statement the guard rejects is recorded as false, with or
\* without steps in the transcript.
C34_RejectedReferenceIsFalse ==
    (Recorded /\ Attempted(TheItem) /\ TheItem.gold_execution[1].status = "NoSafe") =>
        TheItem.results_match = Some(FALSE)

\* C34: for a turn with reference SQL, once the run has returned, the
\* reference is executed by safe_query with the budget of the run on a
\* connection of its own, opened after the connection of the run was closed
\* and closed on every exit path, whether or not the transcript has steps;
\* a reference the guard rejects gives results_match false.
C34_ReferenceExecution ==
    /\ C34_BeginsAfterRun
    /\ [](C34_ClosedOnEveryPath)
    /\ [](C34_RejectedReferenceIsFalse)

\* the connection turn t holds
ConnOf(t) == pair.conns[pair.t[t].conn]

\* the statements offered to the turns that the guard rejects
PairRejected == {sql \in PairSql(1) \cup PairSql(2) : Rejects(sql)}

\* what one execution of a run with budget msx_ms may leave as a step for sql
\* when it runs alone
AloneStep(step, sqls, msx_ms) ==
    /\ step.sql \in sqls
    /\ step.execution.status = "NoSafe" <=> step.sql \in PairRejected
    /\ step.execution.status = "TimeOut" =>
           \/ msx_ms > 0 /\ step.execution.elapsed_ms >= msx_ms
           \/ step.execution.error \in {Some(m) : m \in BackendErrors(step.sql)}

\* C35: two turns at work at once, each on its own connection. While a
\* turn executes, the handler on its connection is the one it installed,
\* with the deadline of its own start and budget, whatever the other turn
\* installs or removes; outside an execution its connection carries no
\* handler; and its transcript holds its own statements only, one step for
\* each round, each as an execution with its own budget leaves it when the
\* turn runs alone.
C35_TurnsIsolated ==
    \A t \in Turns :
        /\ pair.t[t].pc = "executing" =>
               /\ ConnOf(t).open /\ ConnOf(t).handler
               /\ ConnOf(t).id = PairIds[t]
               /\ ConnOf(t).deadline = Deadline(pair.t[t].start, pair.t[t].msx_ms)
        /\ pair.t[t].pc \in {"loop", "returned", "raised"} =>
               /\ ~ConnOf(t).handler
               /\ ConnOf(t).id = PairIds[t]
        /\ pair.t[t].pc = "loop" => ConnOf(t).open
        /\ Len(pair.t[t].steps) = pair.t[t].round
        /\ \A i \in DOMAIN pair.t[t].steps :
               AloneStep(pair.t[t].steps[i], PairSql(t), pair.t[t].msx_ms)

\* a step of one turn changes neither the run nor the connection of the
\* other
C35_StepsAreLocal ==
    [][\A t \in Turns :
          pair'.t[t] # pair.t[t] =>
              /\ pair'.t[Other(t)] = pair.t[Other(t)]
              /\ pair.t[Other(t)].pc # "idle" =>
                     pair'.conns[pair.t[Other(t)].conn] =
                         pair.conns[pair.t[Other(t)].conn]]_vars

\* both turns are executing at once, each with its own deadline installed
C35_Witness ==
    /\ pair.t[1].pc = "executing" /\ pair.t[2].pc = "executing"
    /\ pair.t[1].msx_ms = 1 /\ pair.t[2].msx_ms = 2
    /\ ConnOf(1).deadline # ConnOf(2).deadline
    /\ ConnOf(1).handler /\ ConnOf(2).handler

====
